---- MODULE Spec2Model ----
(***************************************************************************)
(* A model of the chess-tournament pairing and ranking engine              *)
(* (src/chess_tournament.py, src/dutch_tournament.py).                     *)
(*                                                                         *)
(* Units.  Points are kept in half-points (a win adds 2, a draw 1), and    *)
(* badness values are kept multiplied by BADNESS_SCALE, so that            *)
(*   (p1.points - p2.points) ** 2   and   abs(p1.elo - p2.elo) / 500       *)
(* are integers.  Floating-point rounding is not modelled.                 *)
(***************************************************************************)
EXTENDS Integers, Sequences, FiniteSets, TLC

VARIABLES
    players,                \* PlayerManager.players, by id: id -> Player
    order,                  \* PlayerManager.players, the list order (ids)
    rounds_matches,         \* MatchManager.rounds_matches: round -> Seq(Match)
    next_match_id_in_round, \* MatchManager.next_match_id_in_round
    current_round,          \* Tournament.current_round
    kind,                   \* which controller: "Tournament" | "DutchTournament"
    call,                   \* the last pairing operation called, its inputs and result
    round_start,            \* the players as they were when pair_round began the round
    end_round_calls,        \* how often end_round was called in the current round
    next_player_id          \* PlayerManager.next_player_id

vars == <<players, order, rounds_matches, next_match_id_in_round,
          current_round, kind, call, round_start, end_round_calls,
          next_player_id>>

----------------------------------------------------------------------------
(* Bounds of the model *)

MaxPairs == 3        \* pools handed to find_optimal_pairing hold 2..2*MaxPairs players
MaxPlayed == 6       \* pairs that have met before, in a drawn pool of up to 4 players
MaxPlayedLarge == 1  \* the same, in a larger drawn pool
MaxHalfPoints == 1   \* drawn scores are 0..MaxHalfPoints half-points
NumRounds == 2       \* Tournament(num_rounds)
MaxByePool == 4      \* pools handed to handle_bye_assignment hold 1..MaxByePool players
NumPlayers == 3      \* registered players of the tournament
MaxMatchId == 2      \* match ids given to enter_result are 1..MaxMatchId
MaxEndRoundCalls == 1  \* end_round is called at most this often per round
MaxColorBalance == 3  \* drawn color balance counters are -MaxColorBalance..MaxColorBalance
MaxColorPoints == 2   \* drawn scores of a pair to be colored are 0..MaxColorPoints half-points
MaxWithinPlayed == 3   \* pairs that have met before, in a drawn score group
MaxWithinFree == 4     \* groups up to this size are drawn with any color balance and history
MaxWithinGroup == 6    \* score groups handed to pair_within_score_group hold 2..MaxWithinGroup players
MaxVariedElos == 5    \* ratings drawn freely at the head of a Dutch pool
MaxGroupPool == 4     \* lists handed to create_score_groups hold 0..MaxGroupPool players
MaxGroupPoints == 3   \* their scores are 0..MaxGroupPoints half-points
MaxRegistered == 3    \* add_player is called while fewer players than this are registered
MaxRaisePool == 3     \* pools of the error cases hold 1..MaxRaisePool players
MaxBudgetPairs == 2   \* pools drawn around the round budget hold 0..2*MaxBudgetPairs players

\* ratings a drawn player may have
EloValues == {0, 3000, 3500, 5500}

----------------------------------------------------------------------------
(* Program constants *)

REMATCH_PENALTY == 1000
ELO_DIFF_DIVISOR == 500
MATCH_BADNESS_LIMIT == 10
MATCH_ACCEPTABLE_BADNESS_LIMIT == 3
ROUND_BADNESS_FACTOR == 4        \* round_badness_limit = len(players) * 4
INF == -1                        \* float("inf")
ELO_TIEBREAK_DIVISOR == 10000     \* get_final_standings: opponent.elo / 10000
DEFAULT_ELO == 100                \* Player.__init__: the rating set for an invalid input

\* badness values are stored multiplied by this: 4 clears the /4 of a squared
\* half-point difference, ELO_DIFF_DIVISOR clears the rating division
BADNESS_SCALE == 4 * ELO_DIFF_DIVISOR

----------------------------------------------------------------------------
(* Sequences *)

Abs(x) == IF x < 0 THEN -x ELSE x

Range(s) == {s[i] : i \in 1..Len(s)}

Contains(s, x) == \E i \in 1..Len(s) : s[i] = x

RemoveAt(s, i) == SubSeq(s, 1, i - 1) \o SubSeq(s, i + 1, Len(s))

\* list.remove(x): drops the first occurrence
RECURSIVE RemoveFirst(_, _)
RemoveFirst(s, x) ==
    IF s = <<>> THEN <<>>
    ELSE IF Head(s) = x THEN Tail(s)
    ELSE <<Head(s)>> \o RemoveFirst(Tail(s), x)

\* tuple comparison k1 < k2, for keys of the same length
RECURSIVE LexLess(_, _)
LexLess(k1, k2) ==
    IF k1 = <<>> THEN FALSE
    ELSE IF Head(k1) # Head(k2) THEN Head(k1) < Head(k2)
    ELSE LexLess(Tail(k1), Tail(k2))

\* list.sort(key=...): a stable ascending sort; key maps each element to its
\* tuple.  reverse=True keeps the order of equal elements too, so it is the
\* ascending sort by the negated key.
StableSort(s, key) ==
    LET \* the element at j comes before the element at i in the sorted list
        Before(j, i) == \/ LexLess(key[s[j]], key[s[i]])
                        \/ j < i /\ ~LexLess(key[s[i]], key[s[j]])
        position == [i \in 1..Len(s) |->
                        Cardinality({j \in 1..Len(s) : Before(j, i)}) + 1]
    IN [p \in 1..Len(s) |-> s[CHOOSE i \in 1..Len(s) : position[i] = p]]

MinOf(S) == CHOOSE x \in S : \A y \in S : x <= y

RECURSIVE SumSeq(_)
SumSeq(s) == IF s = <<>> THEN 0 ELSE Head(s) + SumSeq(Tail(s))

----------------------------------------------------------------------------
(* Player *)

\* lines 16-18 of Player.__init__: a rating that is not a non-negative integer
\* is replaced (ratings are integers throughout the model)
ValidElo(elo) == IF elo < 0 THEN DEFAULT_ELO ELSE elo

\* Player.__init__ (name_surname and bonus_points are not modelled)
Player(id, elo) ==
    [id |-> id, elo |-> ValidElo(elo), points |-> 0,
     past_colors |-> <<>>, past_matches |-> <<>>, past_opponents |-> <<>>,
     had_regular_bye |-> FALSE, has_bye_this_round |-> FALSE,
     is_present |-> TRUE, color_balance_counter |-> 0, past_results |-> <<>>]

\* Player.add_points, n in half-points
add_points(p, n) == [p EXCEPT !.points = @ + n]

----------------------------------------------------------------------------
(* PairingEngine *)

\* PairBadness with the rematch penalty left out
PairBadness_NoRematchPenalty(p1, p2) ==
    (p1.points - p2.points) * (p1.points - p2.points) * (BADNESS_SCALE \div 4)
    + Abs(p1.elo - p2.elo) * (BADNESS_SCALE \div ELO_DIFF_DIVISOR)

\* PairBadness with the squared score difference left out
PairBadness_NoScoreTerm(p1, p2) ==
    (IF Contains(p1.past_opponents, p2.id) THEN REMATCH_PENALTY * BADNESS_SCALE ELSE 0)
    + Abs(p1.elo - p2.elo) * (BADNESS_SCALE \div ELO_DIFF_DIVISOR)

\* the badness of one cell of the matrix, p1 the row's player, p2 the column's
PairBadness(p1, p2) ==
    (IF Contains(p1.past_opponents, p2.id) THEN REMATCH_PENALTY * BADNESS_SCALE ELSE 0)
    + (p1.points - p2.points) * (p1.points - p2.points) * (BADNESS_SCALE \div 4)
    + Abs(p1.elo - p2.elo) * (BADNESS_SCALE \div ELO_DIFF_DIVISOR)

\* PairingEngine._calculate_badness_matrix: a row for every player of the list
\* but the last, a column for every player; only the cells above the diagonal
\* of the list order are filled, the others stay inf
calculate_badness_matrix(P, players_list) ==
    [a \in Range(SubSeq(players_list, 1, Len(players_list) - 1)),
     b \in Range(players_list) |->
        LET i == CHOOSE k \in 1..Len(players_list) : players_list[k] = a
            j == CHOOSE k \in 1..Len(players_list) : players_list[k] = b
        IN IF i >= j THEN INF ELSE PairBadness(P[a], P[b])]

NoPairing == [found |-> FALSE, pairing |-> <<>>, badness |-> INF]

\* Pruned letting a total equal to the bound pass
Pruned_AllowsEqual(badness, current_best_total_badness) ==
    \/ badness = INF
    \/ badness > current_best_total_badness
    \/ badness > MATCH_BADNESS_LIMIT * BADNESS_SCALE

\* the pruning test of lines 501 and 515-520
Pruned(badness, current_best_total_badness) ==
    \/ badness = INF
    \/ badness >= current_best_total_badness
    \/ badness > MATCH_BADNESS_LIMIT * BADNESS_SCALE

\* Acceptable comparing with the per-pair limit instead of the acceptable limit
Acceptable_WrongLimit(min_overall_badness) ==
    min_overall_badness < MATCH_BADNESS_LIMIT * BADNESS_SCALE

\* the early return of line 541
Acceptable(min_overall_badness) ==
    min_overall_badness < MATCH_ACCEPTABLE_BADNESS_LIMIT * BADNESS_SCALE

\* RemainingForRecursion with the slice off by one: the partner is kept
RemainingForRecursion_KeepsPartner(players_remaining, i) ==
    Tail(players_remaining)

\* line 523: players_remaining[1:i] + players_remaining[i+1:], i the partner's
\* index counted from 1
RemainingForRecursion(players_remaining, i) ==
    RemoveAt(Tail(players_remaining), i - 1)

RECURSIVE find_best_pairing_recursive(_, _, _)
RECURSIVE PartnerLoop(_, _, _, _, _)

\* the for loop of lines 510-542: i the partner's index, best the
\* (best_overall_pairing, min_overall_badness) so far
PartnerLoop(players_remaining, badness_matrix, i, current_best_total_badness, best) ==
    IF i > Len(players_remaining) THEN best
    ELSE
      LET first_player == players_remaining[1]
          current_partner == players_remaining[i]
          pair_badness == badness_matrix[first_player, current_partner]
      IN IF Pruned(pair_badness, current_best_total_badness)
         THEN PartnerLoop(players_remaining, badness_matrix, i + 1,
                          current_best_total_badness, best)
         ELSE
           LET rest == RemainingForRecursion(players_remaining, i)
               recursive_result ==
                   find_best_pairing_recursive(rest, badness_matrix,
                       current_best_total_badness - pair_badness)
               total_badness_for_combo == pair_badness + recursive_result.badness
           IN IF recursive_result.found
                 /\ (~best.found \/ total_badness_for_combo < best.badness)
              THEN LET new == [found |-> TRUE,
                               pairing |-> <<<<first_player, current_partner>>>>
                                           \o recursive_result.pairing,
                               badness |-> total_badness_for_combo]
                   IN IF Acceptable(new.badness) THEN new
                      ELSE PartnerLoop(players_remaining, badness_matrix, i + 1,
                                       new.badness, new)
              ELSE PartnerLoop(players_remaining, badness_matrix, i + 1,
                               current_best_total_badness, best)

\* PairingEngine._find_best_pairing_recursive
find_best_pairing_recursive(players_remaining, badness_matrix, current_best_total_badness) ==
    IF players_remaining = <<>> THEN [found |-> TRUE, pairing |-> <<>>, badness |-> 0]
    ELSE IF Len(players_remaining) = 2 THEN
      LET badness == badness_matrix[players_remaining[1], players_remaining[2]]
      IN IF Pruned(badness, current_best_total_badness) THEN NoPairing
         ELSE [found |-> TRUE,
               pairing |-> <<<<players_remaining[1], players_remaining[2]>>>>,
               badness |-> badness]
    ELSE PartnerLoop(players_remaining, badness_matrix, 2,
                     current_best_total_badness, NoPairing)

\* OddPoolRaises with the parity check left out
OddPoolRaises_Never(players_to_pair) == FALSE

\* lines 550-553 of find_optimal_pairing: a list that is not empty and of odd
\* length raises ValueError
OddPoolRaises(players_to_pair) ==
    players_to_pair # <<>> /\ Len(players_to_pair) % 2 # 0

\* PairingEngine.find_optimal_pairing, for an even list (an odd one raises)
find_optimal_pairing(P, players_to_pair) ==
    IF players_to_pair = <<>> THEN [found |-> TRUE, pairing |-> <<>>, badness |-> 0]
    ELSE
      LET badness_matrix == calculate_badness_matrix(P, players_to_pair)
          round_badness_limit == Len(players_to_pair) * ROUND_BADNESS_FACTOR * BADNESS_SCALE
          result == find_best_pairing_recursive(players_to_pair, badness_matrix,
                                                round_badness_limit)
      IN IF result.found /\ result.badness <= round_badness_limit THEN result
         ELSE NoPairing

\* a call of find_optimal_pairing on any list: the exception raised, if any,
\* and the value returned
FindOptimalPairingCall(P, players_to_pair) ==
    IF OddPoolRaises(players_to_pair)
    THEN [raised |-> "ValueError", result |-> NoPairing]
    ELSE [raised |-> "", result |-> find_optimal_pairing(P, players_to_pair)]

\* MatrixSort leaving the list as it is
MatrixSort_NoSort(P, pool) == pool

\* the sort of Tournament.pair_round_matrix: key (points, elo), reverse=True
MatrixSort(P, pool) ==
    StableSort(pool, [a \in Range(pool) |-> <<-P[a].points, -P[a].elo>>])

----------------------------------------------------------------------------
(* Match and MatchManager.  The operations of a handler are threaded through *)
(* a record T = [players, rounds_matches, next_match_id_in_round, raised];   *)
(* raised is "" or the name of the exception that ended the handler, and an  *)
(* operation applied after an exception leaves T alone.                      *)

\* no player: the second player of a bye match, kept as the sentinel of id 0
None == 0

\* the checks of Match.__init__ that can fail on player ids and round numbers
MatchRaises(player_white, player_black, round_number) ==
    \/ player_black # None /\ player_white = player_black
    \/ round_number <= 0

\* Match.__init__
Match(match_id, player_white, player_black, round_number) ==
    [match_id |-> match_id, player_white |-> player_white,
     player_black |-> player_black, round_number |-> round_number,
     result |-> IF player_black = None THEN "bye" ELSE " - ",
     is_bye_match |-> player_black = None,
     is_half_bye_match |-> FALSE]

\* the elements of s that are in S, in the order of s
SelectIn(s, S) == LET Test(x) == x \in S IN SelectSeq(s, Test)

\* MatchManager.create_match
create_match(T, player_white, player_black, round_number, is_half_bye) ==
    IF T.raised # "" THEN T
    ELSE IF MatchRaises(player_white, player_black, round_number)
    THEN [T EXCEPT !.raised = "ValueError"]
    ELSE
      LET new == Match(T.next_match_id_in_round, player_white, player_black, round_number)
          match == IF new.is_bye_match
                   THEN [new EXCEPT !.is_half_bye_match = is_half_bye,
                                    !.result = IF is_half_bye THEN "half bye" ELSE "bye"]
                   ELSE new
          P == T.players
          P1 == IF match.is_bye_match
                THEN [P EXCEPT ![player_white] =
                        [@ EXCEPT !.past_colors =
                                      Append(@, IF is_half_bye THEN "half bye" ELSE "bye"),
                                  !.had_regular_bye = IF is_half_bye THEN @ ELSE TRUE,
                                  !.has_bye_this_round = TRUE,
                                  !.past_matches = Append(@, match.match_id),
                                  !.past_opponents = Append(@, 0)]]
                ELSE [P EXCEPT ![player_white] =
                        [@ EXCEPT !.past_opponents = Append(@, player_black),
                                  !.past_colors = Append(@, "white"),
                                  !.past_matches = Append(@, match.match_id)],
                               ![player_black] =
                        [@ EXCEPT !.past_opponents = Append(@, player_white),
                                  !.past_colors = Append(@, "black"),
                                  !.past_matches = Append(@, match.match_id)]]
      IN [T EXCEPT !.players = P1,
                   !.next_match_id_in_round = @ + 1,
                   !.rounds_matches[round_number] = Append(@, match)]

\* the sort key of line 641
EligibleKey(p) == <<p.points, p.elo>>

\* HalfByeKey looking at the rating only
HalfByeKey_EloOnly(p) == <<p.elo>>

\* the sort key of line 675
HalfByeKey(p) == <<p.points, p.elo>>

\* get_eligible_bye_player returning the first of the sorted list instead of a
\* random tied player
get_eligible_bye_player_FirstOnly(P, players_pool) ==
    LET eligible == SelectIn(players_pool,
                             {a \in Range(players_pool) : ~P[a].had_regular_bye})
    IN IF eligible = <<>> THEN {}
       ELSE {StableSort(eligible, [a \in Range(eligible) |-> EligibleKey(P[a])])[1]}

\* MatchManager.get_eligible_bye_player: the players random.choice may return;
\* the empty set stands for the result None
get_eligible_bye_player(P, players_pool) ==
    LET eligible_for_regular_bye ==
            SelectIn(players_pool, {a \in Range(players_pool) : ~P[a].had_regular_bye})
    IN IF eligible_for_regular_bye = <<>> THEN {}
       ELSE
         LET sorted == StableSort(eligible_for_regular_bye,
                           [a \in Range(eligible_for_regular_bye) |->
                               EligibleKey(P[a])])
             lowest_point == P[sorted[1]].points
             tied_players == SelectIn(sorted, {a \in Range(sorted) :
                                                  P[a].points = lowest_point})
         IN Range(tied_players)

\* the loop of lines 653-658: each absent player without a bye gets a half-bye
RECURSIVE AbsentLoop(_, _, _)
AbsentLoop(T, absent_players, round_number) ==
    IF absent_players = <<>> THEN T
    ELSE
      LET p == Head(absent_players)
          T1 == IF ~T.players[p].has_bye_this_round
                THEN create_match(
                       [T EXCEPT !.players[p] =
                           [add_points(@, 1) EXCEPT !.has_bye_this_round = TRUE]],
                       p, None, round_number, TRUE)
                ELSE T
      IN AbsentLoop(T1, Tail(absent_players), round_number)

\* PresentOf without the filter: absent players stay in the pool
PresentOf_KeepsAbsent(P, players_pool) == players_pool

\* the present players of a pool, in the pool's order (line 661)
PresentOf(P, players_pool) ==
    SelectIn(players_pool, {a \in Range(players_pool) : P[a].is_present})

\* the values the random.choice of get_eligible_bye_player can hand to
\* handle_bye_assignment for this pool: None when it is not called or finds
\* nobody
ByePicks(P, players_pool) ==
    LET players_for_pairing == PresentOf(P, players_pool)
        tied == get_eligible_bye_player(P, players_for_pairing)
    IN IF Len(players_for_pairing) % 2 # 0 /\ tied # {} THEN tied ELSE {None}

\* MatchManager.handle_bye_assignment, potential_regular_bye_player being the
\* outcome of get_eligible_bye_player; the result is the new T, bye_player and
\* players_for_pairing
handle_bye_assignment(T, players_pool, round_number, potential_regular_bye_player) ==
    LET absent_players ==
            SelectIn(players_pool, {a \in Range(players_pool) : ~T.players[a].is_present})
        T1 == AbsentLoop(T, absent_players, round_number)
        players_for_pairing == PresentOf(T.players, players_pool)
    IN IF Len(players_for_pairing) % 2 # 0
       THEN IF potential_regular_bye_player # None
            THEN LET bye_player == potential_regular_bye_player
                 IN [T |-> create_match(
                              [T1 EXCEPT !.players[bye_player] = add_points(@, 2)],
                              bye_player, None, round_number, FALSE),
                     bye_player |-> bye_player,
                     players_for_pairing |-> RemoveFirst(players_for_pairing, bye_player)]
            ELSE LET sorted == StableSort(players_for_pairing,
                                   [a \in Range(players_for_pairing) |->
                                       HalfByeKey(T1.players[a])])
                     half_bye_player == sorted[1]
                 IN [T |-> create_match(
                              [T1 EXCEPT !.players[half_bye_player] = add_points(@, 1)],
                              half_bye_player, None, round_number, TRUE),
                     bye_player |-> half_bye_player,
                     players_for_pairing |-> Tail(sorted)]
       ELSE [T |-> T1, bye_player |-> None, players_for_pairing |-> players_for_pairing]

----------------------------------------------------------------------------
(* PlayerManager, ResultTracker and the pairing systems of Tournament *)

\* PlayerManager.toggle_player_presence
toggle_player_presence(P, player_id) ==
    [P EXCEPT ![player_id].is_present = ~@]

\* PlayerManager.get_all_players, get_active_players: ids in list order
get_all_players(players_list) == players_list
get_active_players(P, players_list) ==
    SelectIn(players_list, {a \in Range(players_list) : P[a].is_present})

\* PlayerManager.update_standings: key (points, -color_balance_counter, elo),
\* reverse=True
update_standings(P, players_list) ==
    StableSort(players_list,
               [a \in Range(players_list) |->
                   <<-P[a].points, P[a].color_balance_counter, -P[a].elo>>])

\* assign_colors_to_pair with the second half of the points rule left out
assign_colors_to_pair_OneSidedPoints(P, p1, p2) ==
    IF P[p1].color_balance_counter < P[p2].color_balance_counter THEN <<p1, p2>>
    ELSE IF P[p2].color_balance_counter < P[p1].color_balance_counter THEN <<p2, p1>>
    ELSE IF P[p1].points < P[p2].points THEN <<p1, p2>>
    ELSE IF P[p1].elo <= P[p2].elo THEN <<p1, p2>>
    ELSE <<p2, p1>>

\* assign_colors_to_pair with the rating rule turned round
assign_colors_to_pair_HigherElo(P, p1, p2) ==
    IF P[p1].color_balance_counter < P[p2].color_balance_counter THEN <<p1, p2>>
    ELSE IF P[p2].color_balance_counter < P[p1].color_balance_counter THEN <<p2, p1>>
    ELSE IF P[p1].points < P[p2].points THEN <<p1, p2>>
    ELSE IF P[p2].points < P[p1].points THEN <<p2, p1>>
    ELSE IF P[p1].elo >= P[p2].elo THEN <<p1, p2>>
    ELSE <<p2, p1>>

\* assign_colors_to_pair with the points rule ahead of the color balance rule
assign_colors_to_pair_PointsFirst(P, p1, p2) ==
    IF P[p1].points < P[p2].points THEN <<p1, p2>>
    ELSE IF P[p2].points < P[p1].points THEN <<p2, p1>>
    ELSE IF P[p1].color_balance_counter < P[p2].color_balance_counter THEN <<p1, p2>>
    ELSE IF P[p2].color_balance_counter < P[p1].color_balance_counter THEN <<p2, p1>>
    ELSE IF P[p1].elo <= P[p2].elo THEN <<p1, p2>>
    ELSE <<p2, p1>>

\* PairingEngine.assign_colors_to_pair (DutchPairingEngine's is the same code):
\* <<white, black>>
assign_colors_to_pair(P, p1, p2) ==
    IF P[p1].color_balance_counter < P[p2].color_balance_counter THEN <<p1, p2>>
    ELSE IF P[p2].color_balance_counter < P[p1].color_balance_counter THEN <<p2, p1>>
    ELSE IF P[p1].points < P[p2].points THEN <<p1, p2>>
    ELSE IF P[p2].points < P[p1].points THEN <<p2, p1>>
    ELSE IF P[p1].elo <= P[p2].elo THEN <<p1, p2>>
    ELSE <<p2, p1>>

\* the orders random.shuffle can leave a list in
RECURSIVE ShuffleOutcomes(_)
ShuffleOutcomes(s) ==
    IF s = <<>> THEN {<<>>}
    ELSE UNION {{<<s[i]>> \o t : t \in ShuffleOutcomes(RemoveAt(s, i))} :
                i \in 1..Len(s)}

\* the loop of pair_round_random over the shuffled list
RECURSIVE RandomLoop(_, _, _)
RandomLoop(T, players_for_pairing, round_number) ==
    IF players_for_pairing = <<>> \/ T.raised # "" THEN T
    ELSE IF Len(players_for_pairing) = 1 THEN [T EXCEPT !.raised = "IndexError"]
    ELSE RandomLoop(create_match(T, players_for_pairing[1], players_for_pairing[2],
                                 round_number, FALSE),
                    SubSeq(players_for_pairing, 3, Len(players_for_pairing)),
                    round_number)

\* Tournament.pair_round_random, shuffled being the list after random.shuffle
pair_round_random(T, round_number, shuffled) ==
    RandomLoop(T, shuffled, round_number)

\* the loop of pair_round_by_elo: i is the index of the pair's first player,
\* counted from 1
RECURSIVE EloLoop(_, _, _, _)
EloLoop(T, players_for_pairing, i, round_number) ==
    IF i > Len(players_for_pairing) \/ T.raised # "" THEN T
    ELSE IF i = Len(players_for_pairing) THEN [T EXCEPT !.raised = "IndexError"]
    ELSE
      LET player1 == players_for_pairing[i]
          player2 == players_for_pairing[i + 1]
          T1 == IF (i - 1) % 4 = 0
                THEN create_match(T, player1, player2, round_number, FALSE)
                ELSE create_match(T, player2, player1, round_number, FALSE)
      IN EloLoop(T1, players_for_pairing, i + 2, round_number)

\* Tournament.pair_round_by_elo
pair_round_by_elo(T, round_number, players_for_pairing) ==
    EloLoop(T, StableSort(players_for_pairing,
                          [a \in Range(players_for_pairing) |-> <<T.players[a].elo>>]),
            1, round_number)

\* the loop of pair_round_matrix over the returned pairs
RECURSIVE MatrixLoop(_, _, _)
MatrixLoop(T, pairing, round_number) ==
    IF pairing = <<>> THEN T
    ELSE LET colors == assign_colors_to_pair(T.players, pairing[1][1], pairing[1][2])
         IN MatrixLoop(create_match(T, colors[1], colors[2], round_number, FALSE),
                       Tail(pairing), round_number)

\* Tournament.pair_round_matrix: no match is created when find_optimal_pairing
\* returns None
pair_round_matrix(T, round_number, players_for_pairing) ==
    LET sorted == MatrixSort(T.players, players_for_pairing)
        optimal_pairing_result == find_optimal_pairing(T.players, sorted)
    IN IF T.raised # "" THEN T
       ELSE IF OddPoolRaises(sorted) THEN [T EXCEPT !.raised = "ValueError"]
       ELSE IF optimal_pairing_result.found
       THEN MatrixLoop(T, optimal_pairing_result.pairing, round_number)
       ELSE T

----------------------------------------------------------------------------
(* DutchPairingEngine and DutchTournament *)

DUTCH_MATRIX_BELOW == 10     \* pools smaller than this go to the matrix system
DUTCH_LAST_GROUP_BELOW == 15 \* line 207
DUTCH_CHUNKED_ABOVE == 20    \* line 225
DUTCH_CHUNK == 10            \* line 226
DUTCH_CHUNK_MIN == 11        \* line 228

\* DutchPairingEngine.create_score_groups: the groups in the order of the
\* dict, which is the order of the list sorted by points, reverse=True
RECURSIVE ScoreGroupsOf(_, _)
ScoreGroupsOf(P, sorted) ==
    IF sorted = <<>> THEN <<>>
    ELSE LET score == P[sorted[1]].points
             players_list == SelectIn(sorted, {a \in Range(sorted) : P[a].points = score})
             rest == SelectIn(sorted, {a \in Range(sorted) : P[a].points # score})
         IN <<[score |-> score, players |-> players_list,
               unpaired_players |-> players_list]>> \o ScoreGroupsOf(P, rest)

\* create_score_groups with the sort left out
create_score_groups_NoSort(P, players_list) == ScoreGroupsOf(P, players_list)

create_score_groups(P, players_list) ==
    ScoreGroupsOf(P, StableSort(players_list,
                                [a \in Range(players_list) |-> <<-P[a].points>>]))

\* find_opponent_in_candidates with the color balance left out of the sort key
find_opponent_in_candidates_RatingOnly(P, player, candidates) ==
    LET non_rematch_candidates ==
            SelectIn(candidates, {a \in Range(candidates) :
                                     ~Contains(P[player].past_opponents, a)})
    IN IF non_rematch_candidates = <<>> THEN None
       ELSE StableSort(non_rematch_candidates,
                [a \in Range(non_rematch_candidates) |->
                    <<Abs(P[a].elo - P[player].elo)>>])[1]

\* DutchPairingEngine._find_opponent_in_candidates: the opponent or None
find_opponent_in_candidates(P, player, candidates) ==
    LET non_rematch_candidates ==
            SelectIn(candidates, {a \in Range(candidates) :
                                     ~Contains(P[player].past_opponents, a)})
    IN IF non_rematch_candidates = <<>> THEN None
       ELSE StableSort(non_rematch_candidates,
                [a \in Range(non_rematch_candidates) |->
                    <<IF P[player].color_balance_counter * P[a].color_balance_counter >= 0
                      THEN 1 ELSE 0,
                      Abs(P[a].elo - P[player].elo)>>])[1]

\* the for loop of pair_within_score_group: it walks the very list that
\* remove_player shortens, idx being the position of the next element fetched
RECURSIVE GroupLoop(_, _, _, _)
GroupLoop(P, unpaired_players, idx, pairs) ==
    IF idx > Len(unpaired_players)
    THEN [pairs |-> pairs, unpaired_players |-> unpaired_players]
    ELSE
      LET player1 == unpaired_players[idx]
          candidates == SelectIn(unpaired_players, Range(unpaired_players) \ {player1})
          opponent == find_opponent_in_candidates(P, player1, candidates)
      IN IF candidates = <<>> \/ opponent = None
         THEN GroupLoop(P, unpaired_players, idx + 1, pairs)
         ELSE GroupLoop(P, RemoveFirst(RemoveFirst(unpaired_players, player1), opponent),
                        idx + 1, Append(pairs, <<player1, opponent>>))

\* DutchPairingEngine.pair_within_score_group
pair_within_score_group(P, unpaired_players) ==
    GroupLoop(P, unpaired_players, 1, <<>>)

\* phase 1 of pair_round_dutch: group i takes over what group i-1 left
\* unpaired; the result is all_pairs
RECURSIVE DutchPhase1(_, _, _, _, _, _, _)
DutchPhase1(P, score_groups, i, left_over, all_pairs, num_players, cur) ==
    IF i > Len(score_groups) THEN all_pairs
    ELSE
      LET unpaired_players == IF i > 1
                              THEN score_groups[i].unpaired_players \o left_over
                              ELSE score_groups[i].unpaired_players
      IN IF /\ (num_players \div 2) - Len(all_pairs) < cur
            /\ Len(unpaired_players) < cur * 2
            /\ Len(unpaired_players) < DUTCH_LAST_GROUP_BELOW
         THEN all_pairs
         ELSE IF Len(unpaired_players) >= 2
         THEN LET r == pair_within_score_group(P, unpaired_players)
              IN DutchPhase1(P, score_groups, i + 1, r.unpaired_players,
                             all_pairs \o r.pairs, num_players, cur)
         ELSE DutchPhase1(P, score_groups, i + 1, unpaired_players, all_pairs,
                          num_players, cur)

\* the lists group.unpaired_players that phase 1 of pair_round_dutch hands to
\* pair_within_score_group, in the order of the calls (lines 201-211)
RECURSIVE DutchPhase1Groups(_, _, _, _, _, _, _)
DutchPhase1Groups(P, score_groups, i, left_over, all_pairs, num_players, cur) ==
    IF i > Len(score_groups) THEN <<>>
    ELSE
      LET unpaired_players == IF i > 1
                              THEN score_groups[i].unpaired_players \o left_over
                              ELSE score_groups[i].unpaired_players
      IN IF /\ (num_players \div 2) - Len(all_pairs) < cur
            /\ Len(unpaired_players) < cur * 2
            /\ Len(unpaired_players) < DUTCH_LAST_GROUP_BELOW
         THEN <<>>
         ELSE IF Len(unpaired_players) >= 2
         THEN LET r == pair_within_score_group(P, unpaired_players)
              IN <<unpaired_players>> \o
                 DutchPhase1Groups(P, score_groups, i + 1, r.unpaired_players,
                                   all_pairs \o r.pairs, num_players, cur)
         ELSE DutchPhase1Groups(P, score_groups, i + 1, unpaired_players, all_pairs,
                                num_players, cur)

\* the ids of the players of a sequence of pairs
PairedIds(pairs) ==
    {pairs[k][1] : k \in 1..Len(pairs)} \cup {pairs[k][2] : k \in 1..Len(pairs)}

\* list.remove on the list of a record S = [T, unpaired, paired], raising
\* ValueError when the element is missing
RemoveOrRaise(S, x) ==
    IF S.T.raised # "" THEN S
    ELSE IF Contains(S.unpaired, x) THEN [S EXCEPT !.unpaired = RemoveFirst(@, x)]
    ELSE [S EXCEPT !.T.raised = "ValueError"]

\* lines 231-235: the players of the generated matches leave the unpaired list
RECURSIVE TakeOutGenerated(_, _)
TakeOutGenerated(S, generated_matches) ==
    IF generated_matches = <<>> \/ S.T.raised # "" THEN S
    ELSE LET m == Head(generated_matches)
             S1 == RemoveOrRaise(RemoveOrRaise(S, m.player_black), m.player_white)
             S2 == IF S1.T.raised # "" THEN S1
                   ELSE [S1 EXCEPT !.paired = @ \cup {m.player_black, m.player_white}]
         IN TakeOutGenerated(S2, Tail(generated_matches))

\* lines 227-235: range(n) passes of the matrix system over a prefix of
\* players_for_pairing
RECURSIVE ChunkLoop(_, _, _, _)
ChunkLoop(S, passes, round_number, players_for_pairing) ==
    IF passes = 0 \/ S.T.raised # "" THEN S
    ELSE
      LET l == IF Len(S.unpaired) < DUTCH_CHUNK_MIN THEN DUTCH_CHUNK_MIN
               ELSE Len(S.unpaired)
          prefix == SubSeq(players_for_pairing, 1,
                           IF l < Len(players_for_pairing) THEN l
                           ELSE Len(players_for_pairing))
          T1 == pair_round_matrix(S.T, round_number, prefix)
          generated_matches ==
              SubSeq(T1.rounds_matches[round_number],
                     Len(S.T.rounds_matches[round_number]) + 1,
                     Len(T1.rounds_matches[round_number]))
      IN ChunkLoop(TakeOutGenerated([S EXCEPT !.T = T1], generated_matches),
                   passes - 1, round_number, players_for_pairing)

\* phase 4: a half-bye for each player still unpaired
RECURSIVE DutchPhase4(_, _, _)
DutchPhase4(T, unpaired, round_number) ==
    IF unpaired = <<>> \/ T.raised # "" THEN T
    ELSE LET p == Head(unpaired)
         IN DutchPhase4(create_match([T EXCEPT !.players[p] = add_points(@, 1)],
                                     p, None, round_number, TRUE),
                        Tail(unpaired), round_number)

\* the players of the pool not yet paired and without a bye (lines 222, 243)
StillUnpaired(T, players_for_pairing, paired_player_ids) ==
    SelectIn(players_for_pairing,
             {a \in Range(players_for_pairing) :
                 a \notin paired_player_ids /\ ~T.players[a].has_bye_this_round})

\* DutchTournament.pair_round_dutch; num_players is len(self.players), cur is
\* self.current_round
pair_round_dutch(T, round_number, players_for_pairing, num_players, cur) ==
    IF Len(players_for_pairing) < DUTCH_MATRIX_BELOW
    THEN pair_round_matrix(T, round_number, players_for_pairing)
    ELSE
      LET score_groups == create_score_groups(T.players, players_for_pairing)
          \* create_score_groups has sorted players_for_pairing in place
          sorted_pool == StableSort(players_for_pairing,
                             [a \in Range(players_for_pairing) |->
                                 <<-T.players[a].points>>])
          all_pairs == DutchPhase1(T.players, score_groups, 1, <<>>, <<>>,
                                   num_players, cur)
          T2 == MatrixLoop(T, all_pairs, round_number)
          unpaired_after_dutch_logic ==
              StillUnpaired(T2, sorted_pool, PairedIds(all_pairs))
          S0 == [T |-> T2, unpaired |-> unpaired_after_dutch_logic,
                 paired |-> PairedIds(all_pairs)]
          S3 == IF unpaired_after_dutch_logic = <<>> THEN S0
                ELSE IF Len(unpaired_after_dutch_logic) > DUTCH_CHUNKED_ABOVE
                THEN ChunkLoop(S0, Len(unpaired_after_dutch_logic) \div DUTCH_CHUNK,
                               round_number, sorted_pool)
                ELSE LET T3 == pair_round_matrix(T2, round_number,
                                                 unpaired_after_dutch_logic)
                         generated_matches ==
                             SubSeq(T3.rounds_matches[round_number],
                                    Len(T2.rounds_matches[round_number]) + 1,
                                    Len(T3.rounds_matches[round_number]))
                     IN [S0 EXCEPT !.T = T3,
                                   !.paired = @ \cup
                                       {generated_matches[k].player_black :
                                           k \in 1..Len(generated_matches)} \cup
                                       {generated_matches[k].player_white :
                                           k \in 1..Len(generated_matches)}]
      IN DutchPhase4(S3.T, StillUnpaired(S3.T, sorted_pool, S3.paired),
                     round_number)

\* list.remove on the all_players list of a record S = [T, all_players]
RemoveDesired(S, x) ==
    IF S.T.raised # "" THEN S
    ELSE IF Contains(S.all_players, x) THEN [S EXCEPT !.all_players = RemoveFirst(@, x)]
    ELSE [S EXCEPT !.T.raised = "ValueError"]

\* the desired-pairs loop of DutchTournament.pair_round (lines 271-283): a
\* pair (white_id, 0) is a desired bye
RECURSIVE DesiredLoop(_, _, _)
DesiredLoop(S, desired_pairs, cur) ==
    IF desired_pairs = <<>> \/ S.T.raised # "" THEN S
    ELSE
      LET white_id == desired_pairs[1][1]
          black_id == desired_pairs[1][2]
          S1 == IF black_id = 0
                THEN RemoveDesired(
                         [S EXCEPT !.T = create_match(S.T, white_id, None, cur, FALSE)],
                         white_id)
                ELSE RemoveDesired(
                         RemoveDesired(
                             [S EXCEPT !.T = create_match(S.T, white_id, black_id,
                                                          cur, FALSE)],
                             white_id),
                         black_id)
      IN DesiredLoop(S1, Tail(desired_pairs), cur)

\* Match.set_result: the new match, or the match unchanged with raised set
VALID_RESULTS == {"1-0", "0-1", "0.5-0.5", "bye", "half bye"}

set_result(match, result) ==
    IF result \notin VALID_RESULTS THEN [match |-> match, raised |-> "ValueError"]
    ELSE IF match.is_bye_match /\ result \notin {"bye", "half bye"}
    THEN [match |-> match, raised |-> ""]
    ELSE [match |-> [match EXCEPT !.result = result], raised |-> ""]

\* ResultTracker.enter_result: the new rounds_matches; a ValueError of
\* set_result is caught and reported
ResultTracker_enter_result(RM, match_id, result, round_num) ==
    IF round_num \notin DOMAIN RM THEN RM
    ELSE
      LET matches_in_round == RM[round_num]
          found == {k \in 1..Len(matches_in_round) :
                       matches_in_round[k].match_id = match_id}
      IN IF found = {} THEN RM
         ELSE LET k == MinOf(found)
              IN IF matches_in_round[k].is_bye_match THEN RM
                 ELSE [RM EXCEPT ![round_num][k] = set_result(@, result).match]

\* Tournament.enter_result: round_num None enters the result in the current
\* round, and the second call, with None, finds no matches
enter_result(RM, match_id, result, round_num, cur) ==
    LET RM1 == IF round_num = None
               THEN ResultTracker_enter_result(RM, match_id, result, cur)
               ELSE RM
    IN ResultTracker_enter_result(RM1, match_id, result, round_num)

\* one match of ResultTracker.update_players_results
ApplyResult(P, m) ==
    LET w == m.player_white
        b == m.player_black
    IN CASE m.result = "1-0" ->
              [P EXCEPT ![w] = [add_points(@, 2) EXCEPT
                                   !.past_results = Append(@, "W"),
                                   !.color_balance_counter = @ + 1],
                        ![b] = [@ EXCEPT !.past_results = Append(@, "L"),
                                         !.color_balance_counter = @ - 1]]
         [] m.result = "0-1" ->
              [P EXCEPT ![b] = [add_points(@, 2) EXCEPT
                                   !.past_results = Append(@, "W"),
                                   !.color_balance_counter = @ - 1],
                        ![w] = [@ EXCEPT !.past_results = Append(@, "L"),
                                         !.color_balance_counter = @ + 1]]
         [] m.result = "0.5-0.5" ->
              [P EXCEPT ![b] = [add_points(@, 1) EXCEPT
                                   !.past_results = Append(@, "D"),
                                   !.color_balance_counter = @ - 1],
                        ![w] = [add_points(@, 1) EXCEPT
                                   !.past_results = Append(@, "D"),
                                   !.color_balance_counter = @ + 1]]
         [] m.result = "bye" ->
              [P EXCEPT ![w].past_results = Append(@, "B")]
         [] m.result = "half bye" ->
              [P EXCEPT ![w].past_results = Append(@, "HB")]
         [] OTHER ->
              IF b = None THEN [P EXCEPT ![w].past_results = Append(@, m.result)]
              ELSE [P EXCEPT ![w].past_results = Append(@, m.result),
                             ![b].past_results = Append(@, m.result)]

\* ResultTracker.update_players_results
RECURSIVE update_players_results(_, _)
update_players_results(P, matches) ==
    IF matches = <<>> THEN P
    ELSE update_players_results(ApplyResult(P, Head(matches)), Tail(matches))

----------------------------------------------------------------------------
(* PlayerManager.get_final_standings *)

\* metrics are kept multiplied by 4 * ELO_TIEBREAK_DIVISOR: 4 clears the halves
\* of a squared half-point score, ELO_TIEBREAK_DIVISOR the rating division

\* PlayerManager.get_player_by_id
get_player_by_id(P, player_id) ==
    IF player_id \in DOMAIN P THEN player_id ELSE None

\* lines 343-346: the players ahead of the first one with fewer points than
\* the last player of the list
RECURSIVE ScoregroupPrefix(_, _, _)
ScoregroupPrefix(P, players_list, last_points) ==
    IF players_list = <<>> THEN <<>>
    ELSE IF P[Head(players_list)].points < last_points THEN <<>>
    ELSE <<Head(players_list)>> \o ScoregroupPrefix(P, Tail(players_list), last_points)

\* the keys of the scoregroups dict in insertion order
RECURSIVE ScoregroupKeys(_, _, _)
ScoregroupKeys(P, prefix, seen) ==
    IF prefix = <<>> THEN <<>>
    ELSE IF P[Head(prefix)].points \in seen THEN ScoregroupKeys(P, Tail(prefix), seen)
    ELSE <<P[Head(prefix)].points>>
            \o ScoregroupKeys(P, Tail(prefix), seen \cup {P[Head(prefix)].points})

\* scoregroups.values(): the players of the prefix by score, in list order
Scoregroups(P, prefix) ==
    LET keys == ScoregroupKeys(P, prefix, {})
    IN [k \in 1..Len(keys) |->
           SelectIn(prefix, {a \in Range(prefix) : P[a].points = keys[k]})]

\* lines 359-384 for past_results[i] of player: what is added to
\* opponents_points (count pairs of entries with the sum given), or the
\* exception raised
OpponentsPointsEntry(P, scoregruop, player, i) ==
    LET match_result == P[player].past_results[i]
    IN IF match_result \notin {"L", "W", "D"}
       THEN [raised |-> "", count |-> 0, sum |-> 0]
       ELSE IF i > Len(P[player].past_opponents)
       THEN [raised |-> "IndexError", count |-> 0, sum |-> 0]
       ELSE
         LET opponent == get_player_by_id(P, P[player].past_opponents[i])
         IN IF opponent = None
            THEN [raised |-> "AttributeError", count |-> 0, sum |-> 0]
            ELSE [raised |-> "", count |-> 1,
                  sum |-> 4 * P[opponent].elo
                          + (CASE match_result = "L" -> 0
                               [] match_result = "W" ->
                                    IF Contains(scoregruop, opponent)
                                    THEN ELO_TIEBREAK_DIVISOR
                                           * P[opponent].points * P[opponent].points
                                    ELSE 2 * ELO_TIEBREAK_DIVISOR * P[opponent].points
                               [] match_result = "D" ->
                                    ELO_TIEBREAK_DIVISOR * P[opponent].points)]

\* lines 357-385 for one player: the loop over past_results from index i and
\* the division of line 385; the metric is sum / count
RECURSIVE AverageOpponent(_, _, _, _, _)
AverageOpponent(P, scoregruop, player, i, acc) ==
    IF i > Len(P[player].past_results)
    THEN IF acc.count = 0 THEN [acc EXCEPT !.raised = "ZeroDivisionError"] ELSE acc
    ELSE LET entry == OpponentsPointsEntry(P, scoregruop, player, i)
         IN IF entry.raised # "" THEN entry
            ELSE AverageOpponent(P, scoregruop, player, i + 1,
                                 [raised |-> "", count |-> acc.count + entry.count,
                                  sum |-> acc.sum + entry.sum])

players_and_avarage_opponent(P, scoregruop) ==
    [a \in Range(scoregruop) |->
        AverageOpponent(P, scoregruop, a, 1, [raised |-> "", count |-> 0, sum |-> 0])]

\* m1 < m2 for two metrics sum / count
MetricLess(m1, m2) == m1.sum * m2.count < m2.sum * m1.count

\* MetricSort putting a player ahead of the earlier players with the same
\* metric
RECURSIVE InsertByMetric_TiesReversed(_, _, _)
InsertByMetric_TiesReversed(s, x, metric) ==
    IF s = <<>> THEN <<x>>
    ELSE IF ~MetricLess(metric[x], metric[Head(s)]) THEN <<x>> \o s
    ELSE <<Head(s)>> \o InsertByMetric_TiesReversed(Tail(s), x, metric)

RECURSIVE MetricSort_TiesReversed(_, _)
MetricSort_TiesReversed(s, metric) ==
    IF s = <<>> THEN <<>>
    ELSE InsertByMetric_TiesReversed(
             MetricSort_TiesReversed(SubSeq(s, 1, Len(s) - 1), metric), s[Len(s)], metric)

\* lines 388-391: sorted(..., key=metric, reverse=True), which keeps the
\* order of players with equal metrics
RECURSIVE InsertByMetric(_, _, _)
InsertByMetric(s, x, metric) ==
    IF s = <<>> THEN <<x>>
    ELSE IF MetricLess(metric[Head(s)], metric[x]) THEN <<x>> \o s
    ELSE <<Head(s)>> \o InsertByMetric(Tail(s), x, metric)

RECURSIVE MetricSort(_, _)
MetricSort(s, metric) ==
    IF s = <<>> THEN <<>>
    ELSE InsertByMetric(MetricSort(SubSeq(s, 1, Len(s) - 1), metric), s[Len(s)], metric)

\* the first exception raised over the players of a scoregroup, or ""
RECURSIVE FirstRaised(_, _)
FirstRaised(scoregruop, metric) ==
    IF scoregruop = <<>> THEN ""
    ELSE IF metric[Head(scoregruop)].raised # "" THEN metric[Head(scoregruop)].raised
    ELSE FirstRaised(Tail(scoregruop), metric)

\* lines 348-393: the loop over the scoregroups from the k-th
RECURSIVE ScoregroupLoop(_, _, _, _)
ScoregroupLoop(P, groups, k, final_standings) ==
    IF k > Len(groups) THEN [raised |-> "", standings |-> final_standings]
    ELSE IF Len(groups[k]) = 1
    THEN ScoregroupLoop(P, groups, k + 1, final_standings \o groups[k])
    ELSE LET metric == players_and_avarage_opponent(P, groups[k])
             raised == FirstRaised(groups[k], metric)
         IN IF raised # "" THEN [raised |-> raised, standings |-> <<>>]
            ELSE ScoregroupLoop(P, groups, k + 1,
                                final_standings \o MetricSort(groups[k], metric))

\* PlayerManager.get_final_standings(top=None): the list returned, or the
\* exception raised
get_final_standings(P, players_list) ==
    IF players_list = <<>> THEN [raised |-> "", standings |-> <<>>]
    ELSE
      LET top == Len(players_list)
          prefix == ScoregroupPrefix(P, players_list, P[players_list[top]].points)
          r == ScoregroupLoop(P, Scoregroups(P, prefix), 1, <<>>)
      IN IF r.raised # "" THEN r
         ELSE IF Len(r.standings) < Len(players_list)
         THEN [r EXCEPT !.standings =
                  @ \o SubSeq(players_list, Len(@) + 1, Len(players_list))]
         ELSE r

----------------------------------------------------------------------------
(* Perfect matchings of a pool, for stating what the matcher returns *)

\* all perfect matchings of the list pool, each a sequence of pairs
RECURSIVE PerfectMatchings(_)
PerfectMatchings(pool) ==
    IF pool = <<>> THEN {<<>>}
    ELSE IF Len(pool) = 1 THEN {}
    ELSE UNION {{<<<<pool[1], pool[i]>>>> \o m :
                    m \in PerfectMatchings(RemoveAt(Tail(pool), i - 1))} :
                i \in 2..Len(pool)}

PairingBadness(P, pairing) ==
    SumSeq([k \in 1..Len(pairing) |-> PairBadness(P[pairing[k][1]], P[pairing[k][2]])])

HavePlayed(P, a, b) ==
    Contains(P[a].past_opponents, b) \/ Contains(P[b].past_opponents, a)

HasRematch(P, pairing) ==
    \E k \in 1..Len(pairing) : HavePlayed(P, pairing[k][1], pairing[k][2])

WithinPairLimit(P, pairing) ==
    \A k \in 1..Len(pairing) :
        PairBadness(P[pairing[k][1]], P[pairing[k][2]]) <= MATCH_BADNESS_LIMIT * BADNESS_SCALE

\* how often player a occurs in the pairs of a pairing
Occurrences(pairing, a) ==
    Cardinality({k \in 1..Len(pairing) : pairing[k][1] = a})
    + Cardinality({k \in 1..Len(pairing) : pairing[k][2] = a})

----------------------------------------------------------------------------
(* SpecMatch: find_optimal_pairing on drawn pools.  A pool is drawn as       *)
(* Tournament.pair_round_matrix hands it over: sorted by (points, elo)       *)
(* descending; who has met whom is a symmetric relation.                     *)

SortedSeqOf(S) ==
    LET RECURSIVE Build(_)
        Build(T) == IF T = {} THEN <<>>
                    ELSE LET m == MinOf(T) IN <<m>> \o Build(T \ {m})
    IN Build(S)

PoolPairs(n) == {pr \in (1..n) \X (1..n) : pr[1] < pr[2]}

\* the subsets of S with at most k elements
RECURSIVE SubsetsUpTo(_, _)
SubsetsUpTo(S, k) ==
    IF k = 0 \/ S = {} THEN {{}}
    ELSE LET x == CHOOSE y \in S : TRUE
             rest == S \ {x}
         IN SubsetsUpTo(rest, k) \cup {T \cup {x} : T \in SubsetsUpTo(rest, k - 1)}

\* the (points, elo) a drawn player may have, and their rank from the top
Attrs == (0..MaxHalfPoints) \X EloValues
AttrRank(c) == Cardinality({d \in Attrs : LexLess(c, d)}) + 1
AttrAt(r) == CHOOSE c \in Attrs : AttrRank(c) = r

\* the sequences of n ranks lo..Cardinality(Attrs) that never decrease
RECURSIVE SortedRanks(_, _)
SortedRanks(n, lo) ==
    IF n = 0 THEN {<<>>}
    ELSE UNION {{<<r>> \o t : t \in SortedRanks(n - 1, r)} :
                r \in lo..Cardinality(Attrs)}

DrawnPlayer(i, attr, played) ==
    [Player(i, attr[2]) EXCEPT
        !.points = attr[1],
        !.past_opponents = SortedSeqOf({j \in 1..(2 * MaxPairs) :
                                          <<i, j>> \in played \/ <<j, i>> \in played})]

InitMatch ==
    \E n \in {2 * k : k \in 1..MaxPairs} :
    \E ranks \in SortedRanks(n, 1) :
    \E played \in SubsetsUpTo(PoolPairs(n), IF n <= 4 THEN MaxPlayed ELSE MaxPlayedLarge) :
        /\ players = [i \in 1..n |-> DrawnPlayer(i, AttrAt(ranks[i]), played)]
        /\ order = [i \in 1..n |-> i]
        /\ rounds_matches = [r \in 1..NumRounds |-> <<>>]
        /\ next_match_id_in_round = 1
        /\ current_round = 0
        /\ kind = "Tournament"
        /\ call = [op |-> "input", pool |-> [i \in 1..n |-> i]]
        /\ round_start = players
        /\ end_round_calls = 0
        /\ next_player_id = Len(order) + 1

\* the sort of pair_round_matrix, then find_optimal_pairing
MatchStep ==
    /\ call.op = "input"
    /\ LET pool == MatrixSort(players, call.pool)
       IN call' = [op |-> "find_optimal_pairing", pool |-> pool,
                   result |-> find_optimal_pairing(players, pool)]
    /\ UNCHANGED <<players, order, rounds_matches, next_match_id_in_round,
                   current_round, kind, next_player_id, round_start, end_round_calls>>

NextMatch == MatchStep

SpecMatch == InitMatch /\ [][NextMatch]_vars

Returned == call.op = "find_optimal_pairing" /\ call.result.found

\* C1: every matching find_optimal_pairing returns for an even pool holds each
\* player of the pool in exactly one pair, and the returned total badness is
\* the sum of the badness values of the returned pairs.
C1_PerfectMatchingAndTotal ==
    Returned =>
        /\ \A a \in Range(call.pool) : Occurrences(call.result.pairing, a) = 1
        /\ Len(call.result.pairing) * 2 = Len(call.pool)
        /\ call.result.badness = PairingBadness(players, call.result.pairing)

C1_Witness ==
    /\ Returned
    /\ Len(call.pool) = 4
    /\ call.result.badness > 0

\* the cells of the badness matrix that _calculate_badness_matrix fills for
\* the pool handed over: row player before column player in the list
FilledCells ==
    {<<call.pool[i], call.pool[j]>> : <<i, j>> \in PoolPairs(Len(call.pool))}

BadnessMatrix == calculate_badness_matrix(players, call.pool)

\* the rematch penalty and the rating term of a pair, in units of
\* 1 / BADNESS_SCALE
RematchAndRatingTerms(a, b) ==
    (IF b \in Range(players[a].past_opponents) THEN 1000 * BADNESS_SCALE ELSE 0)
    + (Abs(players[a].elo - players[b].elo) * BADNESS_SCALE) \div 500

\* C30 as claimed: the badness of a pair (a, b) is the rematch penalty (1000
\* if b is in a's opponent history) plus |a.elo - b.elo| / 500 and nothing
\* else, whatever the two scores are.
C30_Original_NoScoreTerm ==
    call.op = "find_optimal_pairing" =>
        \A c \in FilledCells : BadnessMatrix[c] = RematchAndRatingTerms(c[1], c[2])

\* C30 as amended: the badness of a pair (a, b) is the rematch penalty plus
\* |a.elo - b.elo| / 500 plus the square of the difference of the two scores
\* (points being kept in half-points, the square is divided by 4).
C30_BadnessHasSquaredScoreDifference ==
    call.op = "find_optimal_pairing" =>
        \A c \in FilledCells :
            LET d == players[c[1]].points - players[c[2]].points
            IN 4 * BadnessMatrix[c] =
                   4 * RematchAndRatingTerms(c[1], c[2]) + d * d * BADNESS_SCALE

\* a pair that has met before and differs in score and in rating
C30_Witness ==
    /\ call.op = "find_optimal_pairing"
    /\ \E c \in FilledCells :
         /\ c[2] \in Range(players[c[1]].past_opponents)
         /\ players[c[1]].points # players[c[2]].points
         /\ players[c[1]].elo # players[c[2]].elo

\* the cell (a, b) of the badness matrix exists: the matrix has no row for
\* the last player of the list
HasCell(a, b) == <<a, b>> \in DOMAIN BadnessMatrix

\* C31: for all distinct players a, b of the pool the badness of (a, b)
\* equals the badness of (b, a), the badness of (a, a) is infinite, and no
\* returned matching pairs a player with itself.
C31_SymmetricNoSelfPairs ==
    call.op = "find_optimal_pairing" =>
        /\ \A a, b \in Range(call.pool) :
             a # b => /\ HasCell(a, b) /\ HasCell(b, a)
                      /\ BadnessMatrix[a, b] = BadnessMatrix[b, a]
        /\ \A a \in Range(call.pool) : HasCell(a, a) /\ BadnessMatrix[a, a] = INF
        /\ call.result.found =>
             \A k \in 1..Len(call.result.pairing) :
                 call.result.pairing[k][1] # call.result.pairing[k][2]

AllPlayers == Range(call.pool)

\* the pool has a perfect matching in which no pair has met before
RematchFreeMatchingExists ==
    \E m \in PerfectMatchings(call.pool) : ~HasRematch(players, m)

\* C4: for an even pool in which each player has a candidate they have not
\* met, find_optimal_pairing returns a pair of players who have met only if
\* the pool has no rematch-free perfect matching.
C4_RematchAvoidance ==
    (/\ Returned
     /\ \A a \in AllPlayers : \E b \in AllPlayers \ {a} : ~HavePlayed(players, a, b)
     /\ HasRematch(players, call.result.pairing))
    => ~RematchFreeMatchingExists

\* a pool of four in which the two top players have met, each player still has
\* a fresh candidate, and a matching is returned
C4_Witness ==
    /\ Returned
    /\ Len(call.pool) = 4
    /\ HavePlayed(players, call.pool[1], call.pool[2])
    /\ \A a \in AllPlayers : \E b \in AllPlayers \ {a} : ~HavePlayed(players, a, b)
    /\ ~HasRematch(players, call.result.pairing)

\* the smallest total badness over all perfect matchings of the pool
MinTotalBadness ==
    MinOf({PairingBadness(players, m) : m \in PerfectMatchings(call.pool)})

\* the same over the matchings whose pairs are each within MATCH_BADNESS_LIMIT
MinTotalWithinPairLimit ==
    MinOf({PairingBadness(players, m) :
              m \in {x \in PerfectMatchings(call.pool) : WithinPairLimit(players, x)}})

\* C5 as claimed: the returned matching has the minimum total badness among
\* all perfect matchings of the pool.
C5_Original_MinimumTotal ==
    Returned => call.result.badness = MinTotalBadness

\* C5 as amended: every returned pair is within the per-pair cutoff, and the
\* returned total is less than MATCH_ACCEPTABLE_BADNESS_LIMIT above the minimum
\* total over the perfect matchings whose pairs are all within that cutoff.
C5_NearMinimumTotal ==
    Returned =>
        /\ WithinPairLimit(players, call.result.pairing)
        /\ MinTotalWithinPairLimit <= call.result.badness
        /\ call.result.badness
              < MinTotalWithinPairLimit + MATCH_ACCEPTABLE_BADNESS_LIMIT * BADNESS_SCALE

\* a returned matching of six players that is not the cheapest one
C5_Witness ==
    /\ Returned
    /\ Len(call.pool) = 6
    /\ call.result.badness > MinTotalWithinPairLimit

----------------------------------------------------------------------------
(* SpecBye: handle_bye_assignment on drawn pools, as pair_round hands them   *)
(* over in round 1 of a running tournament: has_bye_this_round has been      *)
(* reset, players may be absent and may have had a regular bye.              *)

\* the scores and ratings a drawn pool player may have
ByePoints == {0, 2}
ByeElos == {1500, 1600}

ThreadOf(P, RM, next_id) ==
    [players |-> P, rounds_matches |-> RM, next_match_id_in_round |-> next_id,
     raised |-> ""]

InitBye ==
    \E n \in 1..MaxByePool :
    \E points \in [1..n -> ByePoints], elo \in [1..n -> ByeElos],
       present \in [1..n -> BOOLEAN], had_bye \in [1..n -> BOOLEAN] :
        /\ players = [i \in 1..n |->
                         [Player(i, elo[i]) EXCEPT !.points = points[i],
                                                   !.is_present = present[i],
                                                   !.had_regular_bye = had_bye[i]]]
        /\ order = [i \in 1..n |-> i]
        /\ rounds_matches = [r \in 1..NumRounds |-> <<>>]
        /\ next_match_id_in_round = 1
        /\ current_round = 1
        /\ kind = "Tournament"
        /\ call = [op |-> "input", pool |-> [i \in 1..n |-> i]]
        /\ round_start = players
        /\ end_round_calls = 0
        /\ next_player_id = Len(order) + 1

\* handle_bye_assignment(call.pool, current_round)
HandleByeStep ==
    /\ call.op = "input"
    /\ \E pick \in ByePicks(players, call.pool) :
         LET r == handle_bye_assignment(
                      ThreadOf(players, rounds_matches, next_match_id_in_round),
                      call.pool, current_round, pick)
         IN /\ players' = r.T.players
            /\ rounds_matches' = r.T.rounds_matches
            /\ next_match_id_in_round' = r.T.next_match_id_in_round
            /\ call' = [op |-> "handle_bye_assignment", pool |-> call.pool,
                        bye_player |-> r.bye_player,
                        players_for_pairing |-> r.players_for_pairing,
                        raised |-> r.T.raised]
    /\ UNCHANGED <<order, current_round, kind, next_player_id, round_start, end_round_calls>>

NextBye == HandleByeStep

SpecBye == InitBye /\ [][NextBye]_vars

ByeAssigned == call.op = "handle_bye_assignment"

\* the bye matches of a round, and those a player received
ByeMatches(r) == {k \in 1..Len(rounds_matches[r]) : rounds_matches[r][k].is_bye_match}
ByeMatchesOf(r, a) == {k \in ByeMatches(r) : rounds_matches[r][k].player_white = a}
RegularByeMatches(r) == {k \in ByeMatches(r) : ~rounds_matches[r][k].is_half_bye_match}
HalfByeMatches(r) == {k \in ByeMatches(r) : rounds_matches[r][k].is_half_bye_match}

\* the present players of the pool when the call began
PresentAtStart == {a \in Range(call.pool) : round_start[a].is_present}

\* C3: the remaining pool returned by handle_bye_assignment has even size and
\* holds only present players of the input pool, none of whom received a bye
\* in the call.
C3_RemainingPoolEvenPresentByeFree ==
    ByeAssigned =>
        /\ Len(call.players_for_pairing) % 2 = 0
        /\ \A a \in Range(call.players_for_pairing) :
              /\ a \in Range(call.pool)
              /\ players[a].is_present
              /\ ByeMatchesOf(current_round, a) = {}
              /\ ~players[a].has_bye_this_round
              /\ players[a].points = round_start[a].points
              /\ a # call.bye_player

\* an odd number of present players next to an absent one, two players left
C3_Witness ==
    /\ ByeAssigned
    /\ Cardinality(PresentAtStart) = 3
    /\ \E a \in Range(call.pool) : ~round_start[a].is_present
    /\ Len(call.players_for_pairing) = 2

\* C8: when the present players of the pool are odd in number and each has
\* had a regular bye, handle_bye_assignment raises nothing and gives exactly
\* one of them a bye: a half-bye worth 0.5 points to a player with the lowest
\* (points, elo), who leaves the pool; no regular bye is granted.
C8_HalfByeFallback ==
    (/\ ByeAssigned
     /\ Cardinality(PresentAtStart) % 2 = 1
     /\ \A a \in PresentAtStart : round_start[a].had_regular_bye)
    => /\ call.raised = ""
       /\ RegularByeMatches(current_round) = {}
       /\ \E p \in PresentAtStart :
             /\ call.bye_player = p
             /\ Cardinality(ByeMatchesOf(current_round, p)) = 1
             /\ ByeMatchesOf(current_round, p) \subseteq HalfByeMatches(current_round)
             /\ players[p].points = round_start[p].points + 1
             /\ \A q \in PresentAtStart :
                   ~LexLess(<<round_start[q].points, round_start[q].elo>>,
                            <<round_start[p].points, round_start[p].elo>>)
             /\ Range(call.players_for_pairing) = PresentAtStart \ {p}
             /\ \A q \in PresentAtStart \ {p} :
                   /\ ByeMatchesOf(current_round, q) = {}
                   /\ players[q].points = round_start[q].points

\* three present players who all had a regular bye, with different scores
C8_Witness ==
    /\ ByeAssigned
    /\ Cardinality(PresentAtStart) = 3
    /\ \A a \in PresentAtStart : round_start[a].had_regular_bye
    /\ \E a, b \in PresentAtStart : round_start[a].points < round_start[b].points
    /\ HalfByeMatches(current_round) # {}

\* the present players without a regular bye whose score is the lowest among
\* them, in a state P of the players
MinScoreEligible(P, pool) ==
    LET eligible == {a \in Range(pool) : P[a].is_present /\ ~P[a].had_regular_bye}
    IN {a \in eligible : \A b \in eligible : P[a].points <= P[b].points}

OddPresentWithEligible(P, pool) ==
    /\ Cardinality({a \in Range(pool) : P[a].is_present}) % 2 = 1
    /\ MinScoreEligible(P, pool) # {}

\* C9: when the present players of the pool are odd in number and one of them
\* never had a regular bye, the regular bye (1.0 point, had_regular_bye set)
\* goes to a player with the lowest score among the present players who never
\* had one, and each player with that score among them can be the recipient.
C9_RegularByeToLowestScore ==
    /\ (ByeAssigned /\ OddPresentWithEligible(round_start, call.pool))
       => /\ call.bye_player \in MinScoreEligible(round_start, call.pool)
          /\ players[call.bye_player].points = round_start[call.bye_player].points + 2
          /\ players[call.bye_player].had_regular_bye
          /\ \E k \in RegularByeMatches(current_round) :
                /\ RegularByeMatches(current_round) = {k}
                /\ rounds_matches[current_round][k].player_white = call.bye_player
    /\ (call.op = "input" /\ OddPresentWithEligible(players, call.pool))
       => \A t \in MinScoreEligible(players, call.pool) :
             \E pick \in ByePicks(players, call.pool) :
                handle_bye_assignment(
                    ThreadOf(players, rounds_matches, next_match_id_in_round),
                    call.pool, current_round, pick).bye_player = t

\* a regular bye went to a tied player who is not the lowest rated of the tie
C9_Witness ==
    /\ ByeAssigned
    /\ OddPresentWithEligible(round_start, call.pool)
    /\ \E t \in MinScoreEligible(round_start, call.pool) :
          round_start[t].elo < round_start[call.bye_player].elo

----------------------------------------------------------------------------
(* Spec: a tournament of NumPlayers registered players run through its       *)
(* controller, a Tournament or a DutchTournament.                            *)

\* the rating of registered player i: the first is rated above the others
SpecElo(i) == IF i = 1 THEN 1600 ELSE 1500

\* the player whose presence is toggled: the last one registered
TogglePlayers == {NumPlayers}

PairingSystems == {"random", "by elo", "matrix", "dutch"}

\* desired_pairs given to DutchTournament.pair_round: none, a bye for player
\* 1, the pair of players 3 and 2, player 2 against themselves
DesiredPairsInputs == {<<>>, <<<<1, 0>>>>, <<<<3, 2>>>>, <<<<2, 2>>>>}

\* results given to enter_result
ResultInputs == {"1-0", "0.5-0.5", "bye", "2-0"}

\* round numbers given to enter_result: None is the current round
RoundInputs == {None, 1}

Init ==
    /\ kind \in {"Tournament", "DutchTournament"}
    /\ players = [i \in 1..NumPlayers |-> Player(i, SpecElo(i))]
    /\ order = [i \in 1..NumPlayers |-> i]
    /\ rounds_matches = [r \in 1..NumRounds |-> <<>>]
    /\ next_match_id_in_round = 1
    /\ current_round = 0
    /\ call = [op |-> "init"]
    /\ round_start = players
    /\ end_round_calls = 0
    /\ next_player_id = Len(order) + 1

\* reset_match_id_counter leaving the counter where the last round left it
reset_match_id_counter_Keeps(T) == T

\* MatchManager.reset_match_id_counter
reset_match_id_counter(T) == [T EXCEPT !.next_match_id_in_round = 1]

\* MaxRoundsReached letting one more round begin
MaxRoundsReached_OneMore(cur) == cur > NumRounds

\* the test of lines 1070-1072 (dutch_tournament.py 253-255): no round is
\* begun once num_rounds rounds have been
MaxRoundsReached(cur) == cur >= NumRounds

\* lines 1081-1082: has_bye_this_round is reset for every player
ResetByeFlags(P) == [a \in DOMAIN P |-> [P[a] EXCEPT !.has_bye_this_round = FALSE]]

\* the match statement of pair_round: Tournament knows random, by elo and
\* matrix, DutchTournament random, by elo and dutch
PairBySystem(k, T, system, cur, players_for_pairing, num_players) ==
    CASE system = "random" -> pair_round_random(T, cur, players_for_pairing)
      [] system = "by elo" -> pair_round_by_elo(T, cur, players_for_pairing)
      [] system = "matrix" /\ k = "Tournament" ->
            pair_round_matrix(T, cur, players_for_pairing)
      [] system = "dutch" /\ k = "DutchTournament" ->
            pair_round_dutch(T, cur, players_for_pairing, num_players, cur)
      [] OTHER -> [T EXCEPT !.raised = "ValueError"]

\* the state a pair_round that began round cur leaves behind
PairRoundEnds(T, cur, system, desired_pairs, outcome) ==
    /\ players' = T.players
    /\ rounds_matches' = T.rounds_matches
    /\ next_match_id_in_round' = T.next_match_id_in_round
    /\ current_round' = cur
    /\ round_start' = players
    /\ end_round_calls' = 0
    /\ call' = [op |-> "pair_round", system |-> system, desired_pairs |-> desired_pairs,
                outcome |-> IF T.raised # "" THEN T.raised ELSE outcome]
    /\ UNCHANGED <<order, kind, next_player_id>>

\* Tournament.pair_round(system) and DutchTournament.pair_round(system,
\* desired_pairs), for given arguments
PairRoundWith(system, desired_pairs) ==
      /\ kind = "Tournament" => desired_pairs = <<>>
      /\ IF MaxRoundsReached(current_round)
         THEN /\ call' = [op |-> "pair_round", outcome |-> "max rounds",
                          returned |-> <<>>]
              /\ UNCHANGED <<players, order, rounds_matches, next_match_id_in_round,
                             current_round, kind, next_player_id, round_start, end_round_calls>>
         ELSE
           LET cur == current_round + 1
               T0 == reset_match_id_counter(
                         ThreadOf(ResetByeFlags(players), rounds_matches,
                                  next_match_id_in_round))
               pool == IF kind = "Tournament"
                       THEN get_active_players(T0.players, order)
                       ELSE get_all_players(order)
               S == IF kind = "DutchTournament"
                    THEN DesiredLoop([T |-> T0, all_players |-> pool], desired_pairs, cur)
                    ELSE [T |-> T0, all_players |-> pool]
           IN IF Len(pool) < 2
              THEN PairRoundEnds(T0, cur, system, desired_pairs, "not enough players")
              ELSE IF S.T.raised # ""
              THEN PairRoundEnds(S.T, cur, system, desired_pairs, "raised")
              ELSE
                \E pick \in ByePicks(S.T.players, S.all_players) :
                  LET r == handle_bye_assignment(S.T, S.all_players, cur, pick)
                  IN IF Len(r.players_for_pairing) % 2 # 0
                     THEN PairRoundEnds([r.T EXCEPT !.raised = "RuntimeError"], cur,
                                        system, desired_pairs, "raised")
                     ELSE IF r.players_for_pairing = <<>>
                     THEN PairRoundEnds(r.T, cur, system, desired_pairs,
                                        "no players left")
                     ELSE
                       \E shuffled \in (IF system = "random"
                                        THEN ShuffleOutcomes(r.players_for_pairing)
                                        ELSE {r.players_for_pairing}) :
                         PairRoundEnds(
                             PairBySystem(kind, r.T, system, cur, shuffled, Len(order)),
                             cur, system, desired_pairs, "paired")

\* pair_round with any pairing system and any desired_pairs
PairRound ==
    \E system \in PairingSystems, desired_pairs \in DesiredPairsInputs :
        PairRoundWith(system, desired_pairs)

\* Tournament.toggle_player_presence(player_id)
TogglePresence ==
    \E player_id \in TogglePlayers :
      /\ players' = toggle_player_presence(players, player_id)
      /\ UNCHANGED <<order, rounds_matches, next_match_id_in_round, current_round,
                     kind, next_player_id, call, round_start, end_round_calls>>

\* Tournament.enter_result(match_id, result, round_num)
EnterResult ==
    \E match_id \in 1..MaxMatchId, result \in ResultInputs,
       round_num \in RoundInputs :
      /\ rounds_matches' = enter_result(rounds_matches, match_id, result, round_num,
                                        current_round)
      /\ UNCHANGED <<players, order, next_match_id_in_round, current_round, kind, next_player_id,
                     call, round_start, end_round_calls>>

\* Tournament.end_round()
EndRound ==
    /\ end_round_calls < MaxEndRoundCalls
    /\ LET matches == IF current_round \in DOMAIN rounds_matches
                      THEN rounds_matches[current_round] ELSE <<>>
           P1 == update_players_results(players, matches)
       IN /\ players' = P1
          /\ order' = update_standings(P1, order)
    /\ end_round_calls' = end_round_calls + 1
    /\ UNCHANGED <<rounds_matches, next_match_id_in_round, current_round, kind, next_player_id,
                   call, round_start>>

\* Tournament.save_tournament_state(), export_standings_to_txt(final=True) and
\* export_standings_to_csv(final=True): the player list is replaced by the
\* final standings; an exception of get_final_standings leaves it alone
SaveTournamentState ==
    /\ LET r == get_final_standings(players, order)
       IN order' = IF r.raised = "" THEN r.standings ELSE order
    /\ UNCHANGED <<players, rounds_matches, next_match_id_in_round, current_round,
                   kind, next_player_id, call, round_start, end_round_calls>>

Next == PairRound \/ TogglePresence \/ EnterResult \/ EndRound \/ SaveTournamentState

Spec == Init /\ [][Next]_vars

\* the rounds begun so far
RoundsBegun == 1..current_round

\* the regular bye matches player a received in the rounds begun so far
RegularByesOf(a) ==
    {<<r, k>> \in RoundsBegun \X (1..NumPlayers) :
        /\ k \in RegularByeMatches(r)
        /\ rounds_matches[r][k].player_white = a}

\* C2: across the rounds of a tournament, under any pairing system, presence
\* toggles and desired_pairs, no player receives more than one regular bye
\* match.
C2_AtMostOneRegularBye ==
    \A a \in 1..NumPlayers : Cardinality(RegularByesOf(a)) <= 1

\* the last pair_round began a round and got past the bye assignment
RoundPaired ==
    /\ call.op = "pair_round"
    /\ call.outcome \in {"paired", "no players left"}

\* the matches of round r that player a takes part in
MatchesOf(r, a) ==
    {k \in 1..Len(rounds_matches[r]) :
        \/ rounds_matches[r][k].player_white = a
        \/ rounds_matches[r][k].player_black = a}

\* C6: in a round paired by pair_round, each registered player whose presence
\* flag was false gets exactly one match of the round, a half-bye worth 0.5
\* points, and is in no paired game of the round.
C6_AbsentPlayersGetHalfBye ==
    RoundPaired =>
        \A a \in 1..NumPlayers :
            ~round_start[a].is_present =>
                /\ Cardinality(MatchesOf(current_round, a)) = 1
                /\ MatchesOf(current_round, a) \subseteq HalfByeMatches(current_round)
                /\ players[a].points = round_start[a].points + 1

\* C7: once end_round has completed, the recipient of each bye match of the
\* round has gained, since pair_round began, exactly 1.0 point for a regular
\* bye and exactly 0.5 points for a half-bye.
C7_ByeAwardsDocumentedPoints ==
    (current_round >= 1 /\ end_round_calls >= 1) =>
        \A k \in ByeMatches(current_round) :
            LET m == rounds_matches[current_round][k]
            IN players[m.player_white].points
                  = round_start[m.player_white].points
                    + (IF m.is_half_bye_match THEN 1 ELSE 2)

\* the standings get_final_standings() returns in the current state
FinalStandings == get_final_standings(players, order)

\* s lists the players in non-increasing order of points
NonIncreasingPoints(s) ==
    \A i \in 1..(Len(s) - 1) : players[s[i]].points >= players[s[i + 1]].points

\* s is a permutation of the registered players
PermutationOfPlayers(s) ==
    /\ Len(s) = Len(order)
    /\ Range(s) = Range(order)

\* C14: in whatever state it is called, get_final_standings() returns a
\* permutation of the registered players in non-increasing order of points.
C14_StandingsArePermutationByPoints ==
    /\ FinalStandings.raised = ""
    /\ PermutationOfPlayers(FinalStandings.standings)
    /\ NonIncreasingPoints(FinalStandings.standings)

\* C15: get_final_standings is idempotent: with the player list replaced by
\* its result, a second call returns the same order as the first.
C15_StandingsIdempotent ==
    FinalStandings.raised = "" =>
        get_final_standings(players, FinalStandings.standings) = FinalStandings

\* the round was ended and the list was then replaced by final standings in
\* another order than end_round left, which a further call returns unchanged
C15_Witness ==
    /\ end_round_calls = 1
    /\ order # update_standings(players, order)
    /\ FinalStandings = [raised |-> "", standings |-> order]

\* player a has no recorded win, loss or draw
NoRecordedResult(a) ==
    \A i \in 1..Len(players[a].past_results) :
        players[a].past_results[i] \notin {"W", "L", "D"}

\* the scoregroups get_final_standings forms in the current state
CurrentScoregroups ==
    Scoregroups(players,
                ScoregroupPrefix(players, order, players[order[Len(order)]].points))

\* the place of player a in the list s
PositionIn(s, a) == CHOOSE i \in 1..Len(s) : s[i] = a

\* C16: get_final_standings completes without error when a block of two or
\* more equal-score players contains a player with no recorded non-bye
\* result, and such players keep their input relative order.
C16_NoErrorWithoutRecordedResults ==
    \A k \in 1..Len(CurrentScoregroups) :
        LET block == CurrentScoregroups[k]
        IN (Len(block) >= 2 /\ \E a \in Range(block) : NoRecordedResult(a)) =>
              /\ FinalStandings.raised = ""
              /\ \A a, b \in Range(block) :
                    (NoRecordedResult(a) /\ NoRecordedResult(b)
                       /\ PositionIn(order, a) < PositionIn(order, b)) =>
                        PositionIn(FinalStandings.standings, a)
                           < PositionIn(FinalStandings.standings, b)

\* the rounds of player a with a recorded win, loss or draw
RecordedRounds(a) ==
    {i \in 1..Len(players[a].past_results) :
        players[a].past_results[i] \in {"W", "L", "D"}}

\* the players with the score of player a
EqualScoreBlock(a) == {b \in DOMAIN players : players[b].points = players[a].points}

\* what round i adds to the metric of player a, times 4 * 10000: the rating of
\* the opponent over 10000, plus for a win the opponent's score (squared if
\* the opponent is in the block of a) and for a draw half of it
RoundContribution(a, i) ==
    LET opponent == players[players[a].past_opponents[i]]
        result == players[a].past_results[i]
    IN 4 * opponent.elo
       + (CASE result = "W" ->
                 IF opponent.id \in EqualScoreBlock(a)
                 THEN 10000 * opponent.points * opponent.points
                 ELSE 2 * 10000 * opponent.points
            [] result = "D" -> 10000 * opponent.points
            [] OTHER -> 0)

RECURSIVE ContributionSum(_, _)
ContributionSum(a, rounds) ==
    IF rounds = {} THEN 0
    ELSE LET i == CHOOSE i \in rounds : TRUE
         IN RoundContribution(a, i) + ContributionSum(a, rounds \ {i})

\* the mean of a is at least the mean of b
MeanAtLeast(a, b) ==
    ContributionSum(a, RecordedRounds(a)) * Cardinality(RecordedRounds(b))
        >= ContributionSum(b, RecordedRounds(b)) * Cardinality(RecordedRounds(a))

\* C17: within each block of two or more equal-score players the standings
\* returned are in non-increasing order of the metric, the mean over the
\* player's non-bye rounds of the contributions of RoundContribution.
C17_BlocksOrderedByMetric ==
    FinalStandings.raised = "" =>
        \A a, b \in DOMAIN players :
            (a # b /\ players[a].points = players[b].points
               /\ PositionIn(FinalStandings.standings, a)
                     < PositionIn(FinalStandings.standings, b)) =>
                MeanAtLeast(a, b)


\* C18: entering a result for a match whose result is already set to a
\* different value is rejected: in every step, a match with a result keeps it.
C18_SetResultIsKept ==
    [][\A r \in DOMAIN rounds_matches :
          \A k \in 1..Len(rounds_matches[r]) :
              rounds_matches[r][k].result # " - " =>
                 /\ k <= Len(rounds_matches'[r])
                 /\ rounds_matches'[r][k].result = rounds_matches[r][k].result]_vars

\* C19: in every reachable state a bye match has a result in {bye, half bye}
\* and a match between two real players never has the result bye or half bye.
C19_ByeResultsOnByeMatchesOnly ==
    \A r \in DOMAIN rounds_matches :
        \A k \in 1..Len(rounds_matches[r]) :
            LET m == rounds_matches[r][k]
            IN IF m.player_black = None
               THEN m.result \in {"bye", "half bye"}
               ELSE m.result \notin {"bye", "half bye"}

\* C20: after every end_round, each player's past_opponents, past_colors,
\* past_matches and past_results have the same length.
C20_HistoriesHaveSameLength ==
    end_round_calls >= 1 =>
        \A a \in DOMAIN players :
            /\ Len(players[a].past_colors) = Len(players[a].past_opponents)
            /\ Len(players[a].past_matches) = Len(players[a].past_opponents)
            /\ Len(players[a].past_results) = Len(players[a].past_opponents)

\* the half-points a match records for player a: 1.0 for a win, 0.5 for a
\* draw, 1.0 for a regular bye, 0.5 for a half-bye, nothing otherwise
Award(m, a) ==
    CASE m.result = "1-0" -> IF m.player_white = a THEN 2 ELSE 0
      [] m.result = "0-1" -> IF m.player_black = a THEN 2 ELSE 0
      [] m.result = "0.5-0.5" -> 1
      [] m.result = "bye" -> IF m.player_white = a THEN 2 ELSE 0
      [] m.result = "half bye" -> IF m.player_white = a THEN 1 ELSE 0
      [] OTHER -> 0

\* the awards of player a over the matches of round r, each match once
RECURSIVE AwardSum(_, _, _)
AwardSum(r, a, S) ==
    IF S = {} THEN 0
    ELSE LET k == MinOf(S)
         IN Award(rounds_matches[r][k], a) + AwardSum(r, a, S \ {k})

\* C21: once round 1 has been ended, and until round 2 is paired, each
\* player's points equal the sum, over the player's matches of round 1, of the
\* award of the recorded result, whatever calls were made.
C21_PointsAreSumOfAwards ==
    (current_round = 1 /\ end_round_calls >= 1) =>
        \A a \in DOMAIN players :
            players[a].points = AwardSum(1, a, MatchesOf(1, a))

\* how often color c stands in player a's past_colors
ColorCount(a, c) ==
    Cardinality({i \in 1..Len(players[a].past_colors) : players[a].past_colors[i] = c})

\* C22: after end_round, each player's color_balance_counter equals the
\* number of 'white' entries minus the number of 'black' entries of the
\* player's past_colors.
C22_ColorBalanceMatchesPastColors ==
    end_round_calls >= 1 =>
        \A a \in DOMAIN players :
            players[a].color_balance_counter = ColorCount(a, "white") - ColorCount(a, "black")

\* the last pair_round handed its players to find_optimal_pairing: system
\* 'matrix' of Tournament, or 'dutch' of DutchTournament, whose pools of
\* NumPlayers players are below DUTCH_MATRIX_BELOW
MatrixSearchUsed ==
    /\ call.op = "pair_round"
    /\ call.outcome = "paired"
    /\ \/ kind = "Tournament" /\ call.system = "matrix"
       \/ kind = "DutchTournament" /\ call.system = "dutch"

\* C23: in a round paired through find_optimal_pairing, every player who was
\* present when pair_round was called has a match of the round, a half-bye
\* if the search found no pairing.
C23_NoneFoundGivesHalfByes ==
    MatrixSearchUsed =>
        \A a \in DOMAIN players :
            round_start[a].is_present => MatchesOf(current_round, a) # {}

\* C35: within each round created by pair_round the match ids are distinct
\* and are exactly 1..k in creation order, k being the number of matches of
\* the round, bye and half-bye matches included; the counter restarts at 1
\* for every round.
C35_MatchIdsSequentialPerRound ==
    /\ \A r \in 1..NumRounds :
         \A k \in 1..Len(rounds_matches[r]) :
             /\ rounds_matches[r][k].match_id = k
             /\ rounds_matches[r][k].round_number = r
    /\ current_round >= 1 =>
         next_match_id_in_round = Len(rounds_matches[current_round]) + 1

\* both rounds hold a bye match and a game
C35_Witness ==
    /\ current_round = 2
    /\ \A r \in 1..2 :
         /\ Len(rounds_matches[r]) = 2
         /\ \E k, g \in 1..2 : /\ rounds_matches[r][k].is_bye_match
                               /\ ~rounds_matches[r][g].is_bye_match

\* a step taken when current_round equals num_rounds that changes call: a
\* call of pair_round (the other handlers leave call as it is)
PairRoundAtMaxRounds == current_round = NumRounds /\ call' # call

\* C37: current_round never exceeds num_rounds: pair_round called when
\* current_round equals num_rounds returns an empty list and changes no
\* player field, no stored match and no counter.
C37_NoRoundBeyondNumRounds ==
    /\ [](current_round <= NumRounds)
    /\ [][PairRoundAtMaxRounds =>
            /\ call'.op = "pair_round"
            /\ call'.outcome = "max rounds"
            /\ call'.returned = <<>>
            /\ UNCHANGED <<players, order, rounds_matches, next_match_id_in_round,
                           current_round, next_player_id, end_round_calls>>]_vars

\* pair_round was called after the last round was paired and ended, with
\* points awarded and matches stored
C37_Witness ==
    /\ call.op = "pair_round"
    /\ call.outcome = "max rounds"
    /\ current_round = NumRounds
    /\ end_round_calls = 1
    /\ Len(rounds_matches[NumRounds]) = 2
    /\ \E a \in DOMAIN players : players[a].points > 0

----------------------------------------------------------------------------
(* SpecRound1: the first round of a tournament with an odd number of         *)
(* players, all present, with zero score and no history.                     *)

Round1Sizes == {3, 5}
Round1Elos == {2500, 2550, 2600, 2650, 2700}

InitRound1 ==
    \E n \in Round1Sizes :
    \E elo \in {f \in [1..n -> Round1Elos] : \A i, j \in 1..n : i # j => f[i] # f[j]} :
        /\ kind \in {"Tournament", "DutchTournament"}
        /\ players = [i \in 1..n |-> Player(i, elo[i])]
        /\ order = [i \in 1..n |-> i]
        /\ rounds_matches = [r \in 1..NumRounds |-> <<>>]
        /\ next_match_id_in_round = 1
        /\ current_round = 0
        /\ call = [op |-> "init"]
        /\ round_start = players
        /\ end_round_calls = 0
        /\ next_player_id = Len(order) + 1

\* pair_round for round 1
Round1Step == current_round = 0 /\ PairRound

NextRound1 == Round1Step

SpecRound1 == InitRound1 /\ [][NextRound1]_vars

\* round 1 was paired by the matrix search: the matrix system of Tournament,
\* or the dutch system of DutchTournament, which hands a pool of fewer than
\* ten players to the matrix search, no pair being desired
Round1PairedByMatrix ==
    /\ RoundPaired
    /\ current_round = 1
    /\ call.desired_pairs = <<>>
    /\ \/ kind = "Tournament" /\ call.system = "matrix"
       \/ kind = "DutchTournament" /\ call.system = "dutch"

\* the games of round r as pairs, and their total rating difference
Games(r) ==
    SelectSeq(rounds_matches[r], LAMBDA m : ~m.is_bye_match)

TotalEloDiff(pairs) ==
    SumSeq([k \in 1..Len(pairs) |->
               Abs(players[pairs[k][1]].elo - players[pairs[k][2]].elo)])

GamePairs(r) ==
    [k \in 1..Len(Games(r)) |-> <<Games(r)[k].player_white, Games(r)[k].player_black>>]

\* the smallest total rating difference of a perfect matching of the players
\* in S
MinTotalEloDiff(S) ==
    MinOf({TotalEloDiff(m) : m \in PerfectMatchings(SortedSeqOf(S))})

LowestRated == {a \in DOMAIN players : \A b \in DOMAIN players : players[a].elo <= players[b].elo}

\* the games of round 1 pair all players but the bye recipient with the least
\* total rating difference
GamesHaveMinimumEloDiff(bye_player) ==
    /\ PairedIds(GamePairs(1)) = DOMAIN players \ {bye_player}
    /\ Len(GamePairs(1)) * 2 = Cardinality(DOMAIN players) - 1
    /\ TotalEloDiff(GamePairs(1)) = MinTotalEloDiff(DOMAIN players \ {bye_player})

\* C10 as claimed: in round 1 with an odd number of players with zero score
\* and no history, the regular bye goes to the lowest-rated player and the
\* others are paired with the minimum total rating difference.
C10_Original_ByeToLowestRated ==
    Round1PairedByMatrix =>
        \E k \in RegularByeMatches(1) :
            /\ rounds_matches[1][k].player_white \in LowestRated
            /\ GamesHaveMinimumEloDiff(rounds_matches[1][k].player_white)

\* C10 as amended: the regular bye goes to any one of the players, each of
\* them being a possible recipient, and gives 1.0 point; the others are paired
\* by the matrix search with the minimum total rating difference.
C10_ByeToAnyPlayer ==
    /\ Round1PairedByMatrix =>
          \E k \in RegularByeMatches(1) :
              LET bye_player == rounds_matches[1][k].player_white
              IN /\ ByeMatches(1) = {k}
                 /\ players[bye_player].points = 2
                 /\ players[bye_player].had_regular_bye
                 /\ \A a \in DOMAIN players \ {bye_player} : players[a].points = 0
                 /\ GamesHaveMinimumEloDiff(bye_player)
    /\ current_round = 0 =>
          ByePicks(players, get_active_players(players, order)) = DOMAIN players

\* five players, the bye went to a player who is not the lowest rated
C10_Witness ==
    /\ Round1PairedByMatrix
    /\ Cardinality(DOMAIN players) = 5
    /\ \E k \in RegularByeMatches(1) : rounds_matches[1][k].player_white \notin LowestRated
    /\ Len(Games(1)) = 2

----------------------------------------------------------------------------
(* SpecColors: assign_colors_to_pair on a drawn pair of players, called in   *)
(* either argument order by the pairing engine of either controller.         *)

ColorBalances == (0 - MaxColorBalance)..MaxColorBalance
ColorPoints == 0..MaxColorPoints
ColorElos == {1500, 1600}

InitColors ==
    \E balance \in [1..2 -> ColorBalances], points \in [1..2 -> ColorPoints],
       elo \in [1..2 -> ColorElos] :
        /\ kind \in {"Tournament", "DutchTournament"}
        /\ players = [i \in 1..2 |->
                         [Player(i, elo[i]) EXCEPT !.points = points[i],
                                                   !.color_balance_counter = balance[i]]]
        /\ order = <<1, 2>>
        /\ rounds_matches = [r \in 1..NumRounds |-> <<>>]
        /\ next_match_id_in_round = 1
        /\ current_round = 1
        /\ call = [op |-> "input"]
        /\ round_start = players
        /\ end_round_calls = 0
        /\ next_player_id = Len(order) + 1

\* assign_colors_to_pair(p1, p2): it returns the two players and assigns
\* nothing
AssignColorsStep ==
    /\ call.op = "input"
    /\ \E p1, p2 \in DOMAIN players :
         /\ p1 # p2
         /\ LET r == assign_colors_to_pair(players, p1, p2)
            IN call' = [op |-> "assign_colors_to_pair", p1 |-> p1, p2 |-> p2,
                        white |-> r[1], black |-> r[2]]
    /\ UNCHANGED <<players, order, rounds_matches, next_match_id_in_round,
                   current_round, kind, next_player_id, round_start, end_round_calls>>

NextColors == AssignColorsStep

SpecColors == InitColors /\ [][NextColors]_vars

ColorsAssigned == call.op = "assign_colors_to_pair"

\* the two players have the same color balance, points and rating
AllThreeEqual(a, b) ==
    /\ players[a].color_balance_counter = players[b].color_balance_counter
    /\ players[a].points = players[b].points
    /\ players[a].elo = players[b].elo

\* C11 as claimed: assign_colors_to_pair(a, b) and assign_colors_to_pair(b, a)
\* give white to the same player and black to the same player, also when a
\* and b have equal color balance, points and rating.
C11_Original_ArgumentOrderIndependent ==
    ColorsAssigned =>
        <<call.white, call.black>> = assign_colors_to_pair(players, call.p2, call.p1)

\* C11 as amended: the result does not depend on the argument order unless
\* the two players have equal color balance, points and rating; then the
\* first argument gets white in either order, so swapping the arguments swaps
\* the colors.
C11_ArgumentOrderIndependentUnlessAllEqual ==
    ColorsAssigned =>
        LET swapped == assign_colors_to_pair(players, call.p2, call.p1)
        IN IF AllThreeEqual(call.p1, call.p2)
           THEN /\ <<call.white, call.black>> = <<call.p1, call.p2>>
                /\ swapped = <<call.p2, call.p1>>
           ELSE <<call.white, call.black>> = swapped

\* the call was made on two players equal in all three, the second
\* registered being the first argument and getting white
C11_Witness ==
    /\ ColorsAssigned
    /\ AllThreeEqual(1, 2)
    /\ call.p1 = 2
    /\ call.white = 2

\* C12: white goes to the player with the strictly lower color balance
\* counter; on equal counters to the one with strictly fewer points; on equal
\* points too to the lower rated; with all three equal to the first argument.
\* No field of either player is changed.
C12_WhiteByPrecedenceChain ==
    ColorsAssigned =>
        LET w == players[call.white]
            b == players[call.black]
        IN /\ {call.white, call.black} = {call.p1, call.p2}
           /\ \/ w.color_balance_counter < b.color_balance_counter
              \/ /\ w.color_balance_counter = b.color_balance_counter
                 /\ \/ w.points < b.points
                    \/ /\ w.points = b.points
                       /\ \/ w.elo < b.elo
                          \/ w.elo = b.elo /\ call.white = call.p1
           /\ players = round_start

\* the rating decided, for the second argument
C12_Witness ==
    /\ ColorsAssigned
    /\ players[1].color_balance_counter = players[2].color_balance_counter
    /\ players[1].points = players[2].points
    /\ players[call.p2].elo < players[call.p1].elo
    /\ call.white = call.p2
    /\ call.p2 = 1

\* C13 as claimed: a player whose color balance counter is at most -2 gets
\* white and a player whose counter is at least +2 gets black, whatever the
\* other player's counter, points and rating.
C13_Original_ImbalanceOverride ==
    ColorsAssigned =>
        \A a \in {call.p1, call.p2} :
            /\ players[a].color_balance_counter <= -2 => call.white = a
            /\ players[a].color_balance_counter >= 2 => call.black = a

\* C13 as amended: a player whose counter is at most -2 gets white if the
\* other player's counter is higher, and a player whose counter is at least
\* +2 gets black if the other player's counter is lower, whatever the points
\* and ratings; a player at or beyond a threshold whose opponent is further
\* beyond it on the same side gets the color that worsens the imbalance.
C13_ImbalanceAgainstOtherCounter ==
    ColorsAssigned =>
        \A a, b \in {call.p1, call.p2} :
            LET ca == players[a].color_balance_counter
                cb == players[b].color_balance_counter
            IN /\ (ca <= -2 /\ ca < cb) => call.white = a
               /\ (ca >= 2 /\ cb < ca) => call.black = a
               /\ (ca <= -2 /\ cb < ca) => call.black = a
               /\ (ca >= 2 /\ ca < cb) => call.white = a

\* both counters are at most -2 and the player given black has fewer points
\* and the lower rating
C13_Witness ==
    /\ ColorsAssigned
    /\ players[call.white].color_balance_counter = -3
    /\ players[call.black].color_balance_counter = -2
    /\ players[call.black].points < players[call.white].points
    /\ players[call.black].elo < players[call.white].elo

----------------------------------------------------------------------------
(* SpecBudget: find_optimal_pairing on drawn pools whose scores and ratings  *)
(* put perfect matchings on, below and above the round budget of 4 per       *)
(* player and the limit of 10 per pair; no two players have met.             *)

BudgetPoints == {0, 2, 4}
BudgetAttrs == BudgetPoints \X EloValues

InitBudget ==
    \E n \in {2 * k : k \in 0..MaxBudgetPairs} :
    \E attr \in [1..n -> BudgetAttrs] :
        /\ players = [i \in 1..n |-> DrawnPlayer(i, attr[i], {})]
        /\ order = [i \in 1..n |-> i]
        /\ rounds_matches = [r \in 1..NumRounds |-> <<>>]
        /\ next_match_id_in_round = 1
        /\ current_round = 0
        /\ kind = "Tournament"
        /\ call = [op |-> "input", pool |-> [i \in 1..n |-> i]]
        /\ round_start = players
        /\ end_round_calls = 0
        /\ next_player_id = Len(order) + 1

NextBudget == MatchStep

SpecBudget == InitBudget /\ [][NextBudget]_vars

\* round_badness_limit of the pool handed over
RoundBudget == Len(call.pool) * ROUND_BADNESS_FACTOR * BADNESS_SCALE

\* the perfect matchings of the pool whose pairs are all within the per-pair
\* limit
MatchingsWithinPairLimit ==
    {m \in PerfectMatchings(call.pool) : WithinPairLimit(players, m)}

\* C24 as claimed: find_optimal_pairing returns a matching whenever some
\* perfect matching has every pair within the per-pair limit and a total
\* badness of at most the round budget 4 * n.
C24_Original_WithinBudgetIsFound ==
    call.op = "find_optimal_pairing" =>
        ((\E m \in MatchingsWithinPairLimit : PairingBadness(players, m) <= RoundBudget)
            => call.result.found)

\* C24 as amended: for a pool that is not empty, find_optimal_pairing returns
\* a matching if and only if some perfect matching has every pair within the
\* per-pair limit and a total badness strictly below the round budget 4 * n;
\* for the empty pool it returns the empty matching.
C24_BelowBudgetIsFound ==
    call.op = "find_optimal_pairing" =>
        (call.result.found <=>
            \/ call.pool = <<>>
            \/ \E m \in MatchingsWithinPairLimit : PairingBadness(players, m) < RoundBudget)

\* four players whose best perfect matching within the per-pair limit has
\* exactly the round budget as its total: none is returned
C24_Witness ==
    /\ call.op = "find_optimal_pairing"
    /\ Len(call.pool) = 4
    /\ \E m \in MatchingsWithinPairLimit : PairingBadness(players, m) = RoundBudget
    /\ ~call.result.found

----------------------------------------------------------------------------
(* SpecRaise: find_optimal_pairing on drawn pools of odd and even size, and  *)
(* create_match on any two players of the pool, the same player twice        *)
(* included.                                                                 *)

InitRaise ==
    \E n \in 1..MaxRaisePool :
    \E points \in [1..n -> 0..MaxHalfPoints], elo \in [1..n -> ByeElos] :
        /\ players = [i \in 1..n |-> [Player(i, elo[i]) EXCEPT !.points = points[i]]]
        /\ order = [i \in 1..n |-> i]
        /\ rounds_matches = [r \in 1..NumRounds |-> <<>>]
        /\ next_match_id_in_round = 1
        /\ current_round = 1
        /\ kind = "Tournament"
        /\ call = [op |-> "input"]
        /\ round_start = players
        /\ end_round_calls = 0
        /\ next_player_id = Len(order) + 1

\* PairingEngine.find_optimal_pairing(players_to_pair) on the whole pool
FindOptimalPairingStep ==
    /\ call.op = "input"
    /\ LET r == FindOptimalPairingCall(players, order)
       IN call' = [op |-> "find_optimal_pairing", pool |-> order,
                   raised |-> r.raised, result |-> r.result]
    /\ UNCHANGED <<players, order, rounds_matches, next_match_id_in_round,
                   current_round, kind, next_player_id, round_start, end_round_calls>>

\* MatchManager.create_match(player_white, player_black, round_number,
\* is_half_bye), player_black None for a bye match
CreateMatchStep ==
    /\ call.op = "input"
    /\ \E player_white \in DOMAIN players, player_black \in DOMAIN players \cup {None},
          is_half_bye \in BOOLEAN :
         LET T == create_match(ThreadOf(players, rounds_matches, next_match_id_in_round),
                               player_white, player_black, current_round, is_half_bye)
         IN /\ players' = T.players
            /\ rounds_matches' = T.rounds_matches
            /\ next_match_id_in_round' = T.next_match_id_in_round
            /\ call' = [op |-> "create_match", player_white |-> player_white,
                        player_black |-> player_black, raised |-> T.raised]
    /\ UNCHANGED <<order, current_round, kind, next_player_id, round_start, end_round_calls>>

NextRaise == FindOptimalPairingStep \/ CreateMatchStep

SpecRaise == InitRaise /\ [][NextRaise]_vars

\* no player, no stored match and no match id differs from before the call
NothingChanged ==
    /\ players = round_start
    /\ \A r \in DOMAIN rounds_matches : rounds_matches[r] = <<>>
    /\ next_match_id_in_round = 1

\* C25: find_optimal_pairing raises an error for a pool of odd size, and only
\* for such a pool; creating a match raises an error when both sides are the
\* same real player, and only then; after either error no player's history,
\* score or flag, and no stored match, has changed.
C25_OddPoolAndSelfPairRaise ==
    /\ call.op = "find_optimal_pairing" =>
          /\ call.raised = "ValueError" <=> Len(call.pool) % 2 = 1
          /\ NothingChanged
    /\ call.op = "create_match" =>
          /\ call.raised = "ValueError" <=> call.player_white = call.player_black
          /\ call.raised # "" => NothingChanged
          /\ call.raised = "" => Len(rounds_matches[current_round]) = 1

\* create_match was called with player 3 on both sides and raised
C25_Witness ==
    /\ call.op = "create_match"
    /\ call.player_white = 3
    /\ call.player_black = 3
    /\ call.raised = "ValueError"

----------------------------------------------------------------------------
(* SpecRegister: PlayerManager.add_player called any number of times.        *)
(* players is the list PlayerManager.players in registration order, each     *)
(* element a Player with its name_surname; an id is whatever add_player      *)
(* used, so two elements may be asked to share one.                          *)

NameInputs == {"Ann", "Bob", "Cy"}
IdInputs == -2..MaxRegistered   \* -1 is the default of the id argument
EloInputs == {-5, 1500, 1600}

\* PlayerManager.get_player_by_id on the list: the index of the first player
\* with the id, or None
IndexById(players_list, player_id) ==
    LET found == {i \in 1..Len(players_list) : players_list[i].id = player_id}
    IN IF found = {} THEN None ELSE MinOf(found)

\* PlayerManager.get_player_by_name on the list: players of id 0 are skipped
IndexByName(players_list, name_surname) ==
    LET found == {i \in 1..Len(players_list) :
                     /\ players_list[i].name_surname = name_surname
                     /\ players_list[i].id # 0}
    IN IF found = {} THEN None ELSE MinOf(found)

\* PlayerManager.update_next_player_id: the value assigned
update_next_player_id(players_list) ==
    LET valid_player_ids == {players_list[i].id : i \in 1..Len(players_list)} \ {0}
    IN IF valid_player_ids = {} THEN 1
       ELSE (CHOOSE x \in valid_player_ids : \A y \in valid_player_ids : y <= x) + 1

\* PlayerManager.add_player: the new list and next_player_id; Player.__init__
\* raises ValueError for a negative id
add_player(players_list, next_id, name_surname, elo, id) ==
    LET id_to_use == IF id = -1 \/ IndexById(players_list, id) # None
                     THEN next_id ELSE id
        existing_player == IndexByName(players_list, name_surname)
    IN IF existing_player # None
       THEN [players |-> [players_list EXCEPT ![existing_player].elo = elo],
             next_player_id |-> next_id, raised |-> ""]
       ELSE IF id_to_use < 0
       THEN [players |-> players_list, next_player_id |-> next_id,
             raised |-> "ValueError"]
       ELSE LET p == [name_surname |-> name_surname] @@ Player(id_to_use, elo)
                appended == Append(players_list, p)
            IN [players |-> appended,
                next_player_id |-> update_next_player_id(appended), raised |-> ""]

InitRegister ==
    /\ players = <<>>
    /\ order = <<>>
    /\ rounds_matches = [r \in 1..NumRounds |-> <<>>]
    /\ next_match_id_in_round = 1
    /\ current_round = 0
    /\ kind \in {"Tournament", "DutchTournament"}
    /\ call = [op |-> "init"]
    /\ round_start = <<>>
    /\ end_round_calls = 0
    /\ next_player_id = 1

\* Tournament.add_player(name_surname, elo, id)
AddPlayer ==
    /\ Len(players) < MaxRegistered
    /\ \E name_surname \in NameInputs, elo \in EloInputs, id \in IdInputs :
         LET r == add_player(players, next_player_id, name_surname, elo, id)
         IN /\ players' = r.players
            /\ next_player_id' = r.next_player_id
            /\ order' = [i \in 1..Len(r.players) |-> i]
            /\ call' = [op |-> "add_player", name_surname |-> name_surname,
                        elo |-> elo, id |-> id, raised |-> r.raised]
    /\ UNCHANGED <<rounds_matches, next_match_id_in_round, current_round, kind,
                   round_start, end_round_calls>>

NextRegister == AddPlayer

SpecRegister == InitRegister /\ [][NextRegister]_vars

\* C26: after any sequence of add_player calls, with or without an id
\* argument, the registered players have pairwise distinct ids and none of
\* them has id 0.
C26_DistinctIdsNoneZero ==
    /\ \A i, j \in 1..Len(players) : i # j => players[i].id # players[j].id
    /\ \A i \in 1..Len(players) : players[i].id # 0

----------------------------------------------------------------------------
(* SpecGroups: DutchPairingEngine.create_score_groups on a drawn list of     *)
(* players, in any order of their scores.                                    *)

InitGroups ==
    \E n \in 0..MaxGroupPool :
    \E points \in [1..n -> 0..MaxGroupPoints] :
        /\ players = [i \in 1..n |-> [Player(i, SpecElo(i)) EXCEPT !.points = points[i]]]
        /\ order = [i \in 1..n |-> i]
        /\ rounds_matches = [r \in 1..NumRounds |-> <<>>]
        /\ next_match_id_in_round = 1
        /\ current_round = 1
        /\ kind = "DutchTournament"
        /\ call = [op |-> "input"]
        /\ round_start = players
        /\ end_round_calls = 0
        /\ next_player_id = Len(order) + 1

\* DutchPairingEngine.create_score_groups(players): the groups assigned to
\* score_groups
CreateScoreGroupsStep ==
    /\ call.op = "input"
    /\ call' = [op |-> "create_score_groups",
                score_groups |-> create_score_groups(players, order)]
    /\ UNCHANGED <<players, order, rounds_matches, next_match_id_in_round,
                   current_round, kind, next_player_id, round_start, end_round_calls>>

NextGroups == CreateScoreGroupsStep

SpecGroups == InitGroups /\ [][NextGroups]_vars

\* how often x stands in the sequence s
CountIn(s, x) == Cardinality({i \in 1..Len(s) : s[i] = x})

\* C27: create_score_groups puts every input player in exactly one score
\* group, once; each group holds exactly the players having the group's
\* score; the groups are in strictly descending order of score.
C27_ScoreGroupsPartitionByScore ==
    call.op = "create_score_groups" =>
        LET g == call.score_groups
        IN /\ \A a \in Range(order) :
                \E k \in 1..Len(g) :
                    /\ CountIn(g[k].players, a) = 1
                    /\ \A l \in 1..Len(g) : l # k => CountIn(g[l].players, a) = 0
           /\ \A k \in 1..Len(g) :
                /\ Range(g[k].players) =
                       {a \in Range(order) : players[a].points = g[k].score}
                /\ g[k].unpaired_players = g[k].players
           /\ \A k, l \in 1..Len(g) : k < l => g[k].score > g[l].score

\* the list was not in order of score, and the groups made of it are more
\* than one, one of them holding two players
C27_Witness ==
    /\ call.op = "create_score_groups"
    /\ Len(call.score_groups) >= 2
    /\ \E k \in 1..Len(call.score_groups) : Len(call.score_groups[k].players) = 2
    /\ \E i \in 1..(Len(order) - 1) :
           players[order[i]].points < players[order[i + 1]].points

----------------------------------------------------------------------------
(* SpecResult: Match.set_result and Tournament.enter_result on the matches   *)
(* of a round that holds a game, a regular bye and a half-bye: round 1 of a  *)
(* DutchTournament of four players, the fourth absent, paired by elo.        *)

ResultTokens == VALID_RESULTS \cup {"2-0", " - "}

InitResult ==
    LET P0 == [i \in 1..4 |-> [Player(i, SpecElo(i)) EXCEPT !.is_present = (i # 4)]]
        pool == <<1, 2, 3, 4>>
    IN \E pick \in ByePicks(P0, pool) :
         LET r == handle_bye_assignment(
                      ThreadOf(P0, [n \in 1..NumRounds |-> <<>>], 1), pool, 1, pick)
             T == pair_round_by_elo(r.T, 1, r.players_for_pairing)
         IN /\ players = T.players
            /\ order = pool
            /\ rounds_matches = T.rounds_matches
            /\ next_match_id_in_round = T.next_match_id_in_round
            /\ current_round = 1
            /\ kind = "DutchTournament"
            /\ call = [op |-> "pair_round", system |-> "by elo",
                       desired_pairs |-> <<>>, outcome |-> "paired"]
            /\ round_start = P0
            /\ end_round_calls = 0
            /\ next_player_id = Len(order) + 1

\* the match of round r with the id match_id, ids being given in list order
MatchById(r, match_id) == rounds_matches[r][match_id]

\* match.set_result(result) on a match of the current round
SetResultStep ==
    \E match_id \in 1..Len(rounds_matches[current_round]), result \in ResultTokens :
      LET r == set_result(MatchById(current_round, match_id), result)
      IN /\ rounds_matches' = [rounds_matches EXCEPT ![current_round][match_id] = r.match]
         /\ call' = [op |-> "set_result", match_id |-> match_id, result |-> result,
                     raised |-> r.raised,
                     before |-> MatchById(current_round, match_id).result]
         /\ UNCHANGED <<players, order, next_match_id_in_round, current_round, kind,
                        next_player_id, round_start, end_round_calls>>

\* Tournament.enter_result(match_id, result, round_num) on a match of the
\* current round
EnterResultStep ==
    \E match_id \in 1..Len(rounds_matches[current_round]), result \in ResultTokens,
       round_num \in RoundInputs :
      /\ rounds_matches' = enter_result(rounds_matches, match_id, result, round_num,
                                        current_round)
      /\ call' = [op |-> "enter_result", match_id |-> match_id, result |-> result,
                  raised |-> "", before |-> MatchById(current_round, match_id).result]
      /\ UNCHANGED <<players, order, next_match_id_in_round, current_round, kind,
                     next_player_id, round_start, end_round_calls>>

NextResult == SetResultStep \/ EnterResultStep

SpecResult == InitResult /\ [][NextResult]_vars

\* C28: set_result with a token outside the five valid ones raises an error
\* and leaves the result as it was, and set_result or enter_result on a bye
\* or half-bye match leaves the match's result as it was.
C28_InvalidTokensAndByeMatchesKeepResult ==
    call.op \in {"set_result", "enter_result"} =>
        LET m == MatchById(current_round, call.match_id)
        IN /\ (call.op = "set_result" /\ call.result \notin VALID_RESULTS) =>
                 call.raised = "ValueError" /\ m.result = call.before
           /\ m.is_bye_match => m.result = call.before

----------------------------------------------------------------------------
(* SpecDutch: round 1 of a DutchTournament paired by the dutch system, for   *)
(* three players, for a pool that goes through the score groups, and for a   *)
(* pool large enough to leave more than DUTCH_CHUNKED_ABOVE players unpaired *)
(* after the score groups; with and without desired pairs.                   *)

DutchPools == {3, 10, 66}

\* desired_pairs naming one player twice
DutchDesiredInputs == {<<>>, <<<<1, 2>>, <<1, 3>>>>, <<<<1, 0>>, <<2, 1>>>>}

\* ratings alternate between the two values; in the pools up to
\* DUTCH_CHUNKED_ABOVE players the first MaxVariedElos are drawn freely
DutchElos(n) ==
    LET alternating == [i \in 1..n |-> IF i % 2 = 0 THEN 1500 ELSE 1600]
        varied == {i \in 1..n : i <= MaxVariedElos}
    IN IF n > DUTCH_CHUNKED_ABOVE THEN {alternating}
       ELSE {[i \in 1..n |-> IF i \in varied THEN e[i] ELSE alternating[i]] :
                e \in [varied -> ByeElos]}

InitDutch ==
    \E n \in DutchPools :
    \E elo \in DutchElos(n) :
        /\ players = [i \in 1..n |-> Player(i, elo[i])]
        /\ order = [i \in 1..n |-> i]
        /\ rounds_matches = [r \in 1..NumRounds |-> <<>>]
        /\ next_match_id_in_round = 1
        /\ current_round = 0
        /\ kind = "DutchTournament"
        /\ call = [op |-> "init"]
        /\ round_start = players
        /\ end_round_calls = 0
        /\ next_player_id = Len(order) + 1

\* DutchTournament.pair_round('dutch', desired_pairs) for round 1
DutchRoundStep ==
    /\ current_round = 0
    /\ \E desired_pairs \in DutchDesiredInputs : PairRoundWith("dutch", desired_pairs)

NextDutch == DutchRoundStep

SpecDutch == InitDutch /\ [][NextDutch]_vars

\* C29: within one round no player is in more than one match of the round,
\* as white, as black or as the recipient of a bye, whatever the pool size
\* and the desired_pairs are.
C29_OneMatchPerPlayerPerRound ==
    \A r \in RoundsBegun : \A a \in DOMAIN players :
        Cardinality(MatchesOf(r, a)) <= 1

\* round 1 was paired by the dutch system through the score groups, the pool
\* being all the players in registration order
DutchGroupsPaired ==
    /\ call.op = "pair_round"
    /\ call.outcome = "paired"
    /\ call.desired_pairs = <<>>
    /\ Len(order) >= DUTCH_MATRIX_BELOW

\* the lists pair_within_score_group was called on in that round
GroupsProcessed ==
    DutchPhase1Groups(round_start, create_score_groups(round_start, order), 1,
                      <<>>, <<>>, Len(order), current_round)

\* the key of ScoreGroup.sort_players
SortPlayersKey(p) == <<-p.elo, p.color_balance_counter>>

\* C32: when pair_round_dutch pairs within a score group, the group's
\* players are processed in order of descending rating, ties broken by
\* ascending color-balance counter.
C32_GroupProcessedByDescendingRating ==
    DutchGroupsPaired =>
        \A k \in 1..Len(GroupsProcessed) :
            LET group == GroupsProcessed[k]
            IN \A i, j \in 1..Len(group) :
                 i < j => ~LexLess(SortPlayersKey(round_start[group[j]]),
                                   SortPlayersKey(round_start[group[i]]))

----------------------------------------------------------------------------
(* SpecWithin: pair_within_score_group on a drawn score group.  The group    *)
(* is a list of players of one score in any order of rating and color        *)
(* balance; who has met whom is a symmetric relation, as create_match keeps  *)
(* it.  Groups of MaxWithinFree + 1 .. MaxWithinGroup players are drawn      *)
(* without history and with color balance 0.                                 *)

WithinBalances == {-1, 0, 1}

WithinSizes == 2..MaxWithinGroup

InitWithin ==
    \E n \in WithinSizes :
    \E elo \in [1..n -> ByeElos] :
    \E balance \in (IF n <= MaxWithinFree THEN [1..n -> WithinBalances]
                    ELSE {[i \in 1..n |-> 0]}) :
    \E played \in (IF n <= MaxWithinFree
                   THEN SubsetsUpTo(PoolPairs(n), MaxWithinPlayed) ELSE {{}}) :
        /\ players = [i \in 1..n |->
                         [Player(i, elo[i]) EXCEPT
                             !.color_balance_counter = balance[i],
                             !.past_opponents =
                                 SortedSeqOf({j \in 1..n : <<i, j>> \in played
                                                           \/ <<j, i>> \in played})]]
        /\ order = [i \in 1..n |-> i]
        /\ rounds_matches = [r \in 1..NumRounds |-> <<>>]
        /\ next_match_id_in_round = 1
        /\ current_round = 1
        /\ kind = "DutchTournament"
        /\ call = [op |-> "input", group |-> [i \in 1..n |-> i]]
        /\ round_start = players
        /\ end_round_calls = 0
        /\ next_player_id = Len(order) + 1

\* pair_within_score_group(score_group): the pairs returned and the
\* unpaired_players the group is left with
PairWithinStep ==
    /\ call.op = "input"
    /\ LET r == pair_within_score_group(players, call.group)
       IN call' = [op |-> "pair_within_score_group", group |-> call.group,
                   pairs |-> r.pairs, unpaired_players |-> r.unpaired_players]
    /\ UNCHANGED <<players, order, rounds_matches, next_match_id_in_round,
                   current_round, kind, next_player_id, round_start, end_round_calls>>

NextWithin == PairWithinStep

SpecWithin == InitWithin /\ [][NextWithin]_vars

GroupPaired == call.op = "pair_within_score_group"

\* the players of the group still unpaired when pair k is made, its first
\* player left out: the candidates for that player
CandidatesAt(k) ==
    Range(call.group) \ (PairedIds(SubSeq(call.pairs, 1, k - 1)) \cup {call.pairs[k][1]})

\* the candidates that are not in the opponent history of the player
NonRematchAt(k) ==
    {c \in CandidatesAt(k) : ~Contains(players[call.pairs[k][1]].past_opponents, c)}

\* the candidates whose color balance has the opposite sign
OppositeSign(a, S) ==
    {c \in S : players[a].color_balance_counter * players[c].color_balance_counter < 0}

CanMeet(a, b) ==
    /\ a # b
    /\ ~Contains(players[a].past_opponents, b)
    /\ ~Contains(players[b].past_opponents, a)

\* C34: pair_within_score_group leaves players unpaired only because the
\* group is odd or a player has no non-rematch candidate: for a group of even
\* size whose players have no past opponents it pairs every player, and in
\* general no two players left unpaired are non-rematch candidates for each
\* other.
C34_UnpairedOnlyWithoutCandidates ==
    GroupPaired =>
        /\ (/\ Len(call.group) % 2 = 0
            /\ \A a \in Range(call.group) : players[a].past_opponents = <<>>)
               => call.unpaired_players = <<>>
        /\ \A a, b \in Range(call.unpaired_players) : ~CanMeet(a, b)

\* C36: after any sequence of add_player calls, including calls that update
\* the rating of an already registered name, every registered player's
\* rating is a non-negative integer; an invalid rating input is replaced by
\* the default 100.
C36_RatingsNonNegative ==
    /\ \A i \in 1..Len(players) : players[i].elo \in Nat
    /\ (call.op = "add_player" /\ call.raised = "" /\ call.elo < 0) =>
          \A i \in 1..Len(players) :
              (players[i].name_surname = call.name_surname /\ players[i].id # 0)
                  => players[i].elo = DEFAULT_ELO

----------------------------------------------------------------------------
(* SpecNoRound: the first pair_round of a tournament of 0..NumPlayers        *)
(* players, some of them absent, called with a supported or an unsupported   *)
(* pairing-system name.                                                      *)

\* "monrad" is the name demonstration.py passes; neither controller has it
SystemNames == PairingSystems \cup {"monrad"}

\* the names the match statement of the controller knows
SupportedSystems(k) ==
    IF k = "Tournament" THEN {"random", "by elo", "matrix"}
    ELSE {"random", "by elo", "dutch"}

InitNoRound ==
    \E n \in 0..NumPlayers :
    \E elo \in [1..n -> ByeElos], present \in [1..n -> BOOLEAN] :
        /\ kind \in {"Tournament", "DutchTournament"}
        /\ players = [i \in 1..n |-> [Player(i, elo[i]) EXCEPT !.is_present = present[i]]]
        /\ order = [i \in 1..n |-> i]
        /\ rounds_matches = [r \in 1..NumRounds |-> <<>>]
        /\ next_match_id_in_round = 1
        /\ current_round = 0
        /\ call = [op |-> "init"]
        /\ round_start = players
        /\ end_round_calls = 0
        /\ next_player_id = Len(order) + 1

\* pair_round(system) for round 1
FirstPairRoundStep ==
    /\ current_round = 0
    /\ \E system \in SystemNames : PairRoundWith(system, <<>>)

NextNoRound == FirstPairRoundStep

SpecNoRound == InitNoRound /\ [][NextNoRound]_vars

\* the call of pair_round ended without pairing a round: fewer than two
\* players were available, or the name of the pairing system is not supported
EndsWithoutPairing ==
    /\ call'.op = "pair_round"
    /\ \/ call'.outcome = "not enough players"
       \/ call'.system \notin SupportedSystems(kind)

\* C38: when pair_round ends without pairing a round, because fewer than two
\* players are available or because the pairing-system name is not
\* supported, the tournament state (current_round, player points, histories,
\* bye flags, stored matches) is the same as before the call.
C38_NoPairingLeavesStateUnchanged ==
    [][EndsWithoutPairing => UNCHANGED <<current_round, players, rounds_matches>>]_vars

====
